---- MODULE Spec2Model ----
(***************************************************************************)
(* Verification model of the EMR -> Heidi integration (zkkken/heidi).      *)
(*                                                                         *)
(*   Spec          HeidiClient: authenticate, _make_api_request,           *)
(*                 create_or_update_patient_profile, create_patient        *)
(*                 (src/core/heidi_client.py)                              *)
(*   SpecPipeline  run_emr_to_heidi_pipeline                               *)
(*                 (src/integrations/standalone/pipeline.py)               *)
(*   SpecLocate    AINavigator locate/extract operations                   *)
(*                 (src/core/ai_locator.py)                                *)
(***************************************************************************)
EXTENDS Integers, Sequences, FiniteSets, TLC

(***************************************************************************)
(* Program constants and bounds                                            *)
(***************************************************************************)

\* core/config.py:119  API_RETRY_COUNT = int(os.getenv("API_RETRY_COUNT", "3"))
API_RETRY_COUNT == 3

\* number of distinct ehr_patient_id values the callers use
NumIds == 2

Ids == 1..NumIds

\* Python None
NoneV == "<None>"

\* heidi_client.py:193
MOCK_TOKEN == "MOCK_TOKEN_FOR_DEMO"

\* a token issued by GET /jwt
JWT == "jwt"

Tokens == {NoneV, JWT, MOCK_TOKEN}

\* outcomes of the GET /jwt request as authenticate() sees them
AuthOutcomes == {"token", "neterr", "httperr", "notoken"}

\* outcomes of a destination request as _make_api_request sees them:
\* 2xx, HTTPError 401, HTTPError 4xx, HTTPError 5xx, other RequestException
Outcomes == {"ok", "http401", "http4xx", "http5xx", "neterr"}

HTTPErrors == {"http401", "http4xx", "http5xx"}

\* The destination never answers 2xx to a request whose bearer token is the
\* client-side mock string, which it did not issue.
ServerOutcomes(tok) == IF tok = MOCK_TOKEN THEN Outcomes \ {"ok"} ELSE Outcomes

\* shape of a 2xx answer to GET /patient-profiles?ehr_patient_id=..:
\* a profile with an id, a profile without id/patient_profile_id, or no profile
LookupShapes(existing) == IF existing THEN {"with_id", "without_id"} ELSE {"empty"}

RECURSIVE Pow2(_)
Pow2(k) == IF k = 0 THEN 1 ELSE 2 * Pow2(k - 1)

(***************************************************************************)
(* State                                                                   *)
(***************************************************************************)
VARIABLES
    \* ---- HeidiClient ----
    jwt_token,       \* self.jwt_token
    token_expired,   \* time.time() >= self.token_expiry
    token_expiry,    \* seconds of life self.token_expiry gave the token
    cpc,             \* position inside create_or_update_patient_profile
    call,            \* arguments of the running create_or_update call
    retry,           \* the retry argument of the current _make_api_request frame
    refreshes,       \* token refreshes done by the current _make_api_request call
    reqCount,        \* requests sent by the current _make_api_request call
    cres,            \* outcome of the last client operation
    lastReq,         \* the last patient request put on the wire
    lastAttempt,     \* what the last _make_api_request frame saw and did
    exists,          \* destination: a profile with this ehr_patient_id exists
    forceUsed,       \* some call so far passed force_create=True
    \* ---- run_emr_to_heidi_pipeline ----
    pc,              \* position of the run
    params,          \* smart_mode, skip_confirmation, allow_manual and ALLOW_MANUAL_INPUT
    result,          \* the result dict
    patient_info_dict,
    ocr_text_bound,  \* the local name ocr_text has been assigned
    captureCalls,    \* calls of capture_emr_region / capture_full_screen in the run
    ocrCalls,        \* calls of run_ocr in the run
    parseCalls,      \* calls of parse_patient_info in the run
    publishReqs,     \* destination requests sent in the run
    corrected,       \* fields the user typed a correction for
    authFailed,      \* the run's authenticate() fell back to the mock token
    propagated,      \* an exception left run_emr_to_heidi_pipeline
    failedStage,     \* the stage of the run that failed, "none" so far
    \* ---- AINavigator ----
    display,         \* img.size and (self.screen_w, self.screen_h)
    lpc,             \* position inside locate_patient_precise
    crop_box,        \* crop_box of locate_patient_precise
    coarseAnswer,    \* res_global
    fineAnswer,      \* res_local
    fineQueries,     \* fine-phase vision queries submitted by the running locate
    locResult,       \* what locate_patient_precise returned or raised
    batchInput,      \* the vision answer the batch operation received
    batchResult,     \* what the batch operation returned or raised
    tabResult,       \* what find_tab_or_button returned or raised
    \* ---- AINavigator._extract_json_from_text ----
    rawText,         \* the text of the vision answer, in parts
    decoded,         \* what _extract_json_from_text returned for it
    \* ---- ocr_parser ----
    date_raw,        \* the date text found on the screen
    dateNorm,        \* what _normalize_date returned for it
    ocr,             \* the rest of the screen text and the parsing dialect
    patient_info,    \* what parse_patient_info returned
    \* ---- smart_capture.EMRSystemDetector ----
    ocr_text,        \* the keywords and the script of the recognised text
    detected,        \* what detect_emr_system returned for it
    \* ---- AINavigator._get_pixel_scale ----
    scaleInput,      \* the image width and the logical screen width
    scaleResult,     \* what _get_pixel_scale returned or raised
    \* ---- the two consumers of the recognition engine's output ----
    ocrPage,         \* the lines the engine recognised on the screenshot
    ocrResult,       \* what run_ocr returned or raised
    clickResult,     \* what find_and_click_patient returned, and its click
    \* ---- ocr_parser._parse_generic_cn on a text of labelled lines ----
    cnText,          \* the lines of the recognised text
    cnInfo,          \* the dict _parse_generic_cn returned for it
    \* ---- RPAWorkflow.run_full_workflow ----
    wpc,             \* position inside run_full_workflow
    wresult,         \* the result dict of the workflow
    invoked          \* the steps invoked so far and what each one did

clientVars == <<jwt_token, token_expired, token_expiry, cpc, call, retry, refreshes,
                reqCount, cres, lastReq, lastAttempt, exists, forceUsed>>

pipeVars == <<pc, params, result, patient_info_dict, ocr_text_bound,
              captureCalls, ocrCalls, parseCalls, publishReqs, corrected,
              authFailed, propagated, failedStage>>

locVars == <<display, lpc, crop_box, coarseAnswer, fineAnswer, fineQueries,
             locResult, batchInput, batchResult, tabResult>>

decodeVars == <<rawText, decoded>>

parseVars == <<date_raw, dateNorm, ocr, patient_info>>

detectVars == <<ocr_text, detected>>

scaleVars == <<scaleInput, scaleResult>>

ocrVars == <<ocrPage, ocrResult, clickResult>>

rpaVars == <<wpc, wresult, invoked>>

fieldVars == <<cnText, cnInfo>>

vars == <<clientVars, pipeVars, locVars, decodeVars, parseVars, detectVars,
          scaleVars, ocrVars, rpaVars, fieldVars>>

\* self.token_expiry is None
NoExpiry == 0

\* heidi_client.py:181  result.get("expires_in", 3600)
DEFAULT_EXPIRES_IN == 3600

\* heidi_client.py:182  the token is taken as expired 60 seconds early
EXPIRY_MARGIN == 60

\* heidi_client.py:194  the lifetime given to the mock token
MOCK_TOKEN_LIFETIME == 3600

NoReq == [endpoint |-> "none", method |-> "none", token |-> NoneV,
          expired |-> FALSE, id |-> 0, existed |-> FALSE, force_create |-> FALSE, op |-> "none"]

NoAttempt == [outcome |-> "none", retry |-> 0, refreshes |-> 0, sent |-> 0,
              did |-> "none", sleep |-> 0, phase |-> "none"]

NoCall == [id |-> 0, force_create |-> FALSE]

ClientInit ==
    /\ jwt_token = NoneV
    /\ token_expired = FALSE
    /\ token_expiry = NoExpiry
    /\ cpc = "idle"
    /\ call = NoCall
    /\ retry = 0
    /\ refreshes = 0
    /\ reqCount = 0
    /\ cres = "none"
    /\ lastReq = NoReq
    /\ lastAttempt = NoAttempt
    /\ exists = [i \in Ids |-> FALSE]
    /\ forceUsed = FALSE

(***************************************************************************)
(* HeidiClient.authenticate                                                *)
(***************************************************************************)

\* the token authenticate() leaves in self.jwt_token and returns
AuthToken(tok, expired, force_refresh, ao) ==
    IF tok # NoneV /\ ~force_refresh /\ ~expired
    THEN tok                                   \* cached token
    ELSE IF ao = "token" THEN JWT              \* GET /jwt succeeded
    ELSE MOCK_TOKEN                            \* except Exception: fallback

\* whether the expiry recorded by authenticate() has passed when it returns
AuthExpired(tok, expired, force_refresh) ==
    IF tok # NoneV /\ ~force_refresh /\ ~expired THEN expired ELSE FALSE

\* variant: a failed token request leaves the expiry unset
AuthExpiry_FallbackUnset(tok, expiry, expired, force_refresh, ao) ==
    IF tok # NoneV /\ ~force_refresh /\ ~expired THEN expiry
    ELSE IF ao = "token" THEN DEFAULT_EXPIRES_IN - EXPIRY_MARGIN
    ELSE NoExpiry

\* the lifetime authenticate() records in self.token_expiry
AuthExpiry(tok, expiry, expired, force_refresh, ao) ==
    IF tok # NoneV /\ ~force_refresh /\ ~expired THEN expiry
    ELSE IF ao = "token" THEN DEFAULT_EXPIRES_IN - EXPIRY_MARGIN
    ELSE MOCK_TOKEN_LIFETIME

EnsureExpiry(tok, expiry, expired, ao) ==
    IF tok = NoneV THEN AuthExpiry(tok, expiry, expired, FALSE, ao)
    ELSE expiry

\* _ensure_authenticated(): authenticate only when there is no token at all
EnsureToken(tok, expired, ao) ==
    IF tok = NoneV THEN AuthToken(tok, expired, FALSE, ao) ELSE tok

EnsureExpired(tok, expired) ==
    IF tok = NoneV THEN AuthExpired(tok, expired, FALSE) ELSE expired

Authenticate(force_refresh, ao) ==
    /\ cpc = "idle"
    /\ jwt_token' = AuthToken(jwt_token, token_expired, force_refresh, ao)
    /\ token_expired' = AuthExpired(jwt_token, token_expired, force_refresh)
    /\ token_expiry' = AuthExpiry(jwt_token, token_expiry, token_expired,
                                  force_refresh, ao)
    /\ cres' = "authenticated"
    /\ UNCHANGED <<cpc, call, retry, refreshes, reqCount, lastReq,
                   lastAttempt, exists, forceUsed>>

\* time passes beyond self.token_expiry
Expire ==
    /\ jwt_token # NoneV
    /\ ~token_expired
    /\ token_expired' = TRUE
    /\ UNCHANGED <<jwt_token, token_expiry, cpc, call, retry, refreshes, reqCount, cres,
                   lastReq, lastAttempt, exists, forceUsed>>

(***************************************************************************)
(* HeidiClient._make_api_request, one frame of the recursion, together     *)
(* with the caller's handling of its return value or exception             *)
(* (get_patient_profile_by_ehr_id, create_patient_profile,                 *)
(* update_patient_profile, create_or_update_patient_profile).              *)
(***************************************************************************)

Method(phase) ==
    CASE phase = "lookup" -> "GET"
      [] phase = "create" -> "POST"
      [] phase = "update" -> "PUT"

Endpoint(phase) ==
    IF phase = "update" THEN "/patient-profiles/{id}" ELSE "/patient-profiles"

\* variant: the 401 branch refreshes for as long as the network branch retries
RefreshAllowed_UpToCap(r) == r <= API_RETRY_COUNT

\* 401 branch of the HTTPError handler: one refresh while retry < 1
RefreshAllowed(r) == r < 1

\* variant: the cap compared with <= (one retry too many)
NetworkRetryAllowed_OffByOne(r) == r <= API_RETRY_COUNT

\* RequestException branch: retry while retry < API_RETRY_COUNT
NetworkRetryAllowed(r) == r < API_RETRY_COUNT

\* what the frame does with the outcome of its request
Decide(so, r) ==
    IF so = "ok" THEN "return"
    ELSE IF so \in HTTPErrors
         THEN IF so = "http401" /\ RefreshAllowed(r)
              THEN "refresh_retry"
              ELSE "raise"
         ELSE IF NetworkRetryAllowed(r) THEN "sleep_retry" ELSE "raise"

\* time.sleep(2 ** retry) on the network-retry branch
Backoff(did, r) == IF did = "sleep_retry" THEN Pow2(r) ELSE 0

\* get_patient_profile_by_ehr_id + the branch of create_or_update on it:
\* the phase that follows the lookup
AfterLookup(did, shape) ==
    IF did = "return" /\ shape = "with_id" THEN "update" ELSE "create"

MakeApiRequest(so, ao1, ao2, shape) ==
    /\ cpc \in {"lookup", "create", "update"}
    /\ LET tok  == EnsureToken(jwt_token, token_expired, ao1)
           exp1 == EnsureExpired(jwt_token, token_expired)
           life == EnsureExpiry(jwt_token, token_expiry, token_expired, ao1)
           did  == Decide(so, retry)
       IN
       /\ so \in ServerOutcomes(tok)
       /\ shape \in LookupShapes(exists[call.id])
       /\ lastReq' = [endpoint |-> Endpoint(cpc), method |-> Method(cpc),
                      token |-> tok, expired |-> exp1, id |-> call.id,
                      existed |-> exists[call.id],
                      force_create |-> call.force_create,
                      op |-> "create_or_update_patient_profile"]
       /\ lastAttempt' = [outcome |-> so, retry |-> retry,
                          refreshes |-> refreshes, sent |-> reqCount + 1,
                          did |-> did,
                          sleep |-> Backoff(did, retry), phase |-> cpc]
       /\ reqCount' = IF did \in {"refresh_retry", "sleep_retry"}
                      THEN reqCount + 1 ELSE 0
       /\ retry' = IF did \in {"refresh_retry", "sleep_retry"}
                   THEN retry + 1 ELSE 0
       /\ refreshes' = IF did = "refresh_retry" THEN refreshes + 1
                       ELSE IF did = "sleep_retry" THEN refreshes ELSE 0
       /\ jwt_token' = IF did = "refresh_retry"
                       THEN AuthToken(tok, exp1, TRUE, ao2) ELSE tok
       /\ token_expired' = IF did = "refresh_retry"
                           THEN AuthExpired(tok, exp1, TRUE) ELSE exp1
       /\ token_expiry' = IF did = "refresh_retry"
                          THEN AuthExpiry(tok, life, exp1, TRUE, ao2)
                          ELSE life
       /\ cpc' = IF did \in {"refresh_retry", "sleep_retry"} THEN cpc
                 ELSE IF cpc = "lookup" THEN AfterLookup(did, shape)
                 ELSE "done"
       /\ cres' = IF did \in {"refresh_retry", "sleep_retry"} \/ cpc = "lookup"
                  THEN cres
                  ELSE IF did = "raise" THEN "HeidiPatientProfileError"
                  ELSE IF cpc = "create" THEN "created" ELSE "updated"
       /\ exists' = IF did = "return" /\ cpc = "create"
                    THEN [exists EXCEPT ![call.id] = TRUE] ELSE exists
       /\ UNCHANGED <<call, forceUsed>>

\* create_or_update_patient_profile(patient_data, force_create): entry
CreateOrUpdatePatientProfile(id, force_create) ==
    /\ cpc = "idle"
    /\ call' = [id |-> id, force_create |-> force_create]
    /\ cpc' = IF force_create THEN "create" ELSE "lookup"
    /\ retry' = 0
    /\ refreshes' = 0
    /\ reqCount' = 0
    /\ cres' = "running"
    /\ forceUsed' = (forceUsed \/ force_create)
    /\ UNCHANGED <<jwt_token, token_expired, token_expiry, lastReq, lastAttempt, exists>>

\* the caller takes the result (or the exception) of create_or_update
ReturnToCaller ==
    /\ cpc = "done"
    /\ cpc' = "idle"
    /\ UNCHANGED <<jwt_token, token_expired, token_expiry, call, retry, refreshes, reqCount,
                   cres, lastReq, lastAttempt, exists, forceUsed>>

(***************************************************************************)
(* HeidiClient.create_patient (demo path)                                  *)
(***************************************************************************)
CreatePatient(id, so, ao) ==
    /\ cpc = "idle"
    /\ LET tok  == EnsureToken(jwt_token, token_expired, ao)
           exp1 == EnsureExpired(jwt_token, token_expired)
       IN
       /\ so \in ServerOutcomes(tok)
       /\ jwt_token' = tok
       /\ token_expired' = exp1
       /\ token_expiry' = EnsureExpiry(jwt_token, token_expiry,
                                       token_expired, ao)
       /\ IF tok = MOCK_TOKEN
          THEN /\ cres' = "mock"
               /\ UNCHANGED lastReq
          ELSE /\ lastReq' = [endpoint |-> "/api/v1/patients",
                              method |-> "POST", token |-> tok,
                              expired |-> exp1, id |-> id,
                              existed |-> exists[id], force_create |-> FALSE,
                              op |-> "create_patient"]
               /\ cres' = IF so = "ok" THEN "created_patient" ELSE "None"
    /\ UNCHANGED <<cpc, call, retry, refreshes, reqCount, lastAttempt, exists, forceUsed>>

(***************************************************************************)
(* run_emr_to_heidi_pipeline                                               *)
(***************************************************************************)

\* pipeline.py:216
required_fields == <<"first_name", "last_name", "birth_date", "gender",
                     "ehr_patient_id">>

Fields == {required_fields[i] : i \in 1..Len(required_fields)}

\* variant: only None is falsy
Falsy_NoneOnly(v) == v = NoneV

\* Python falsiness of a field value: None or the empty string
Falsy(v) == v = NoneV \/ v = ""

CanonicalDates == {"1970-01-15"}

CanonicalGenders == {"MALE", "FEMALE", "OTHER"}

\* records parse_patient_info can return: the name pair is absent, a
\* one-character CJK name (empty given name) or a full name; the birth date
\* is absent, normalised, or the raw match when no date template parses;
\* the gender is absent or normalised; the id is absent or present
ParseOutputs ==
    { [first_name |-> n[1], last_name |-> n[2], birth_date |-> b,
       gender |-> g, ehr_patient_id |-> i] :
        n \in {<<NoneV, NoneV>>, <<"", "Zhang">>, <<"San", "Zhang">>},
        b \in {NoneV, "1970-01-15", "1970-13-45"},
        g \in {NoneV, "MALE"},
        i \in {NoneV, "HIS123456"} }

\* what the user may type at the five Prompt.ask calls ("" = just Enter)
TypedInputs ==
    [first_name : {"", "San"}, last_name : {"", "Zhang"},
     birth_date : {"", "1970-01-15", "15/01/1970"},
     gender : {"", "MALE", "male"},
     ehr_patient_id : {"", "HIS123456"}]

NoTyped == [f \in Fields |-> ""]

EmptyInfo == [f \in Fields |-> NoneV]

\* _confirm_and_correct_patient_info, the loop over the five fields
Correct(d, typed) ==
    [f \in Fields |->
        LET current_value == IF Falsy(d[f]) THEN "" ELSE d[f]
            new_value == IF typed[f] = "" THEN current_value ELSE typed[f]
        IN IF new_value # "" THEN new_value ELSE d[f]]

\* variant: only None counts as missing (f not in dict / is None)
MissingFields_NoneOnly(d) == SelectSeq(required_fields, LAMBDA f : d[f] = NoneV)

\* pipeline.py:217  [f for f in required_fields if not patient_info_dict.get(f)]
MissingFields(d) == SelectSeq(required_fields, LAMBDA f : Falsy(d[f]))

\* smart_capture.py:234  extracted_fields
ExtractedCount(d) == Len(required_fields) - Len(MissingFields(d))

\* smart_capture.py:236  at least three key fields
SmartExtractionOk(d) == ExtractedCount(d) >= 3

IdOf(s) == IF s = "HIS123456" THEN 1 ELSE 2

HeidiAPIErrors == {"HeidiAPIError", "HeidiAuthenticationError",
                   "HeidiPatientProfileError"}

\* the exception classes the stages raise; all derive from Exception
StageExceptions == {"RuntimeError", "ValueError", "FileNotFoundError",
                    "NameError"}

\* pipeline.py:262-273: except HeidiAPIError / except Exception
Caught(exc) == exc \in HeidiAPIErrors \/ exc \in StageExceptions

ErrorKind(exc) == IF exc \in HeidiAPIErrors THEN "Heidi API error" ELSE exc

CaptureOutcomes == {"ok", "RuntimeError", "ValueError"}

OcrOutcomes == {"ok", "RuntimeError", "FileNotFoundError"}

\* result["error"] = "用户取消" (pipeline.py:123, 167)
Cancelled == "user cancelled"

NoError == [kind |-> NoneV, missing |-> <<>>]

NoResult == [success |-> FALSE, patient_info |-> NoneV,
             heidi_result |-> NoneV, error |-> NoError]

NoParams == [smart_mode |-> FALSE, skip_confirmation |-> FALSE,
             manual |-> FALSE]

PipeInit ==
    /\ pc = "idle"
    /\ params = NoParams
    /\ result = NoResult
    /\ patient_info_dict = EmptyInfo
    /\ ocr_text_bound = FALSE
    /\ captureCalls = 0
    /\ ocrCalls = 0
    /\ parseCalls = 0
    /\ publishReqs = 0
    /\ corrected = {}
    /\ authFailed = FALSE
    /\ propagated = FALSE
    /\ failedStage = "none"

\* result["error"] = ...; return result
ReturnError(kind, missing, stage) ==
    /\ result' = [result EXCEPT !.error = [kind |-> kind, missing |-> missing]]
    /\ pc' = "done"
    /\ failedStage' = stage
    /\ UNCHANGED propagated

\* an exception raised inside the try block of the run
Raise(exc, stage) ==
    IF Caught(exc)
    THEN /\ result' = [result EXCEPT !.error = [kind |-> ErrorKind(exc),
                                                missing |-> <<>>]]
         /\ pc' = "done"
         /\ failedStage' = stage
         /\ UNCHANGED propagated
    ELSE /\ propagated' = TRUE
         /\ pc' = "done"
         /\ failedStage' = stage
         /\ UNCHANGED result

\* entry: the result dict is created (pipeline.py:71-79)
StartRun(smart_mode, skip_confirmation, manual) ==
    /\ pc \in {"idle", "done"}
    /\ cpc = "idle"
    /\ pc' = "config"
    /\ params' = [smart_mode |-> smart_mode,
                  skip_confirmation |-> skip_confirmation, manual |-> manual]
    /\ result' = NoResult
    /\ patient_info_dict' = EmptyInfo
    /\ ocr_text_bound' = FALSE
    /\ captureCalls' = 0
    /\ ocrCalls' = 0
    /\ parseCalls' = 0
    /\ publishReqs' = 0
    /\ corrected' = {}
    /\ authFailed' = FALSE
    /\ propagated' = FALSE
    /\ failedStage' = "none"
    /\ jwt_token' = NoneV
    /\ token_expired' = FALSE
    /\ token_expiry' = NoExpiry
    /\ call' = NoCall
    /\ retry' = 0
    /\ refreshes' = 0
    /\ reqCount' = 0
    /\ cres' = "none"
    /\ lastReq' = NoReq
    /\ lastAttempt' = NoAttempt
    /\ UNCHANGED <<cpc, exists, forceUsed>>

\* step 1: validate_config()
ValidateConfig(valid) ==
    /\ pc = "config"
    /\ IF valid
       THEN pc' = "ready" /\ UNCHANGED <<result, propagated, failedStage>>
       ELSE ReturnError("config invalid", <<>>, "configuration")
    /\ UNCHANGED <<params, patient_info_dict, ocr_text_bound, captureCalls,
                   ocrCalls, parseCalls, publishReqs, corrected, authFailed>>
    /\ UNCHANGED clientVars

\* variant: the cancel branch records the error but does not return
ReadyPrompt_NoReturn(ready) ==
    /\ pc = "ready"
    /\ IF ~params.skip_confirmation /\ ~ready
       THEN /\ result' = [result EXCEPT !.error = [kind |-> Cancelled,
                                                   missing |-> <<>>]]
            /\ failedStage' = "cancelled"
            /\ pc' = "capture"
            /\ UNCHANGED propagated
       ELSE pc' = "capture" /\ UNCHANGED <<result, propagated, failedStage>>
    /\ UNCHANGED <<params, patient_info_dict, ocr_text_bound, captureCalls,
                   ocrCalls, parseCalls, publishReqs, corrected, authFailed>>
    /\ UNCHANGED clientVars

\* step 2: the readiness prompt, in smart and in normal mode
ReadyPrompt(ready) ==
    /\ pc = "ready"
    /\ IF ~params.skip_confirmation /\ ~ready
       THEN ReturnError(Cancelled, <<>>, "cancelled")
       ELSE pc' = "capture" /\ UNCHANGED <<result, propagated, failedStage>>
    /\ UNCHANGED <<params, patient_info_dict, ocr_text_bound, captureCalls,
                   ocrCalls, parseCalls, publishReqs, corrected, authFailed>>
    /\ UNCHANGED clientVars

\* step 3: capture_emr_region (normal) or capture_full_screen (smart)
Capture(o) ==
    /\ pc = "capture"
    /\ captureCalls' = captureCalls + 1
    /\ IF o = "ok"
       THEN pc' = "ocr" /\ UNCHANGED <<result, propagated, failedStage>>
       ELSE IF params.smart_mode
            THEN ReturnError(o, <<>>, "capture")
            ELSE Raise(o, "capture")
    /\ UNCHANGED <<params, patient_info_dict, ocr_text_bound, ocrCalls,
                   parseCalls, publishReqs, corrected, authFailed>>
    /\ UNCHANGED clientVars

\* variant: a failed recognition is tried again instead of ending the run
RunOcr_Retry(o) ==
    /\ pc = "ocr"
    /\ ocrCalls' = ocrCalls + 1
    /\ IF o = "ok"
       THEN /\ pc' = "parse"
            /\ ocr_text_bound' = ~params.smart_mode
       ELSE /\ pc' = "ocr"
            /\ UNCHANGED ocr_text_bound
    /\ UNCHANGED <<params, result, propagated, failedStage, patient_info_dict,
                   captureCalls, parseCalls, publishReqs, corrected,
                   authFailed>>
    /\ UNCHANGED clientVars

\* step 4: run_ocr; only the normal branch binds the local name ocr_text
RunOcr(o) ==
    /\ pc = "ocr"
    /\ ocrCalls' = ocrCalls + 1
    /\ IF o = "ok"
       THEN /\ pc' = "parse"
            /\ ocr_text_bound' = ~params.smart_mode
            /\ UNCHANGED <<result, propagated, failedStage>>
       ELSE /\ UNCHANGED ocr_text_bound
            /\ IF params.smart_mode
               THEN ReturnError(o, <<>>, "recognition")
               ELSE Raise(o, "recognition")
    /\ UNCHANGED <<params, patient_info_dict, captureCalls, parseCalls,
                   publishReqs, corrected, authFailed>>
    /\ UNCHANGED clientVars

\* step 5: parse_patient_info; smart mode fails below three key fields
ParsePatientInfo(rec) ==
    /\ pc = "parse"
    /\ parseCalls' = parseCalls + 1
    /\ patient_info_dict' = rec
    /\ IF params.smart_mode /\ ~SmartExtractionOk(rec)
       THEN ReturnError("incomplete extraction", <<>>, "extraction")
       ELSE pc' = "confirm" /\ UNCHANGED <<result, propagated, failedStage>>
    /\ UNCHANGED <<params, ocr_text_bound, captureCalls, ocrCalls,
                   publishReqs, corrected, authFailed>>
    /\ UNCHANGED clientVars

\* step 6: _confirm_and_correct_patient_info
ConfirmAndCorrect(is_correct, typed) ==
    /\ pc = "confirm"
    /\ IF params.manual /\ ~is_correct
       THEN /\ patient_info_dict' = Correct(patient_info_dict, typed)
            /\ corrected' = {f \in Fields : typed[f] # ""}
       ELSE /\ typed = NoTyped
            /\ UNCHANGED <<patient_info_dict, corrected>>
    /\ pc' = "validate"
    /\ UNCHANGED <<params, result, ocr_text_bound, captureCalls, ocrCalls,
                   parseCalls, publishReqs, authFailed, propagated,
                   failedStage>>
    /\ UNCHANGED clientVars

\* required-field check, result["patient_info"], PatientProfile(...)
ValidateAndBuild ==
    /\ pc = "validate"
    /\ IF MissingFields(patient_info_dict) # <<>>
       THEN ReturnError("missing required fields",
                        MissingFields(patient_info_dict), "validation")
       ELSE IF ~ocr_text_bound
            THEN /\ result' = [result EXCEPT
                                 !.patient_info = "set",
                                 !.error = [kind |-> ErrorKind("NameError"),
                                            missing |-> <<>>]]
                 /\ pc' = "done"
                 /\ failedStage' = "publish"
                 /\ propagated' = ~Caught("NameError")
            ELSE /\ result' = [result EXCEPT !.patient_info = "set"]
                 /\ pc' = "auth"
                 /\ UNCHANGED <<propagated, failedStage>>
    /\ UNCHANGED <<params, patient_info_dict, ocr_text_bound, captureCalls,
                   ocrCalls, parseCalls, publishReqs, corrected, authFailed>>
    /\ UNCHANGED clientVars

\* step 7: HeidiClient() + authenticate() + call of create_or_update
AuthenticateRun(ao) ==
    /\ pc = "auth"
    /\ jwt_token' = AuthToken(NoneV, FALSE, FALSE, ao)
    /\ token_expired' = AuthExpired(NoneV, FALSE, FALSE)
    /\ token_expiry' = AuthExpiry(NoneV, NoExpiry, FALSE, FALSE, ao)
    /\ authFailed' = (ao # "token")
    /\ call' = [id |-> IdOf(patient_info_dict.ehr_patient_id),
                force_create |-> FALSE]
    /\ cpc' = "lookup"
    /\ retry' = 0
    /\ refreshes' = 0
    /\ reqCount' = 0
    /\ cres' = "running"
    /\ pc' = "publish"
    /\ UNCHANGED <<lastReq, lastAttempt, exists, forceUsed>>
    /\ UNCHANGED <<params, result, patient_info_dict, ocr_text_bound,
                   captureCalls, ocrCalls, parseCalls, publishReqs, corrected,
                   propagated, failedStage>>

\* one destination request of the publish step
PublishRequest(so, ao1, ao2, shape) ==
    /\ pc = "publish"
    /\ MakeApiRequest(so, ao1, ao2, shape)
    /\ publishReqs' = publishReqs + 1
    /\ UNCHANGED <<pc, params, result, patient_info_dict, ocr_text_bound,
                   captureCalls, ocrCalls, parseCalls, corrected, authFailed,
                   propagated, failedStage>>

\* variant: success is recorded before the outcome of the call is known
PublishReturn_SuccessFirst ==
    /\ pc = "publish"
    /\ cpc = "done"
    /\ cpc' = "idle"
    /\ IF cres \in HeidiAPIErrors
       THEN /\ result' = [result EXCEPT !.success = TRUE,
                             !.error = [kind |-> ErrorKind(cres),
                                        missing |-> <<>>]]
            /\ pc' = "done"
            /\ failedStage' = "publish"
            /\ UNCHANGED propagated
       ELSE /\ result' = [result EXCEPT !.heidi_result = cres,
                                        !.success = TRUE]
            /\ pc' = "done"
            /\ UNCHANGED <<propagated, failedStage>>
    /\ UNCHANGED <<jwt_token, token_expired, token_expiry, call, retry,
                   refreshes, reqCount, cres, lastReq, lastAttempt, exists,
                   forceUsed>>
    /\ UNCHANGED <<params, patient_info_dict, ocr_text_bound, captureCalls,
                   ocrCalls, parseCalls, publishReqs, corrected, authFailed>>

\* create_or_update returned or raised: pipeline.py:250-265
PublishReturn ==
    /\ pc = "publish"
    /\ cpc = "done"
    /\ cpc' = "idle"
    /\ IF cres \in HeidiAPIErrors
       THEN Raise(cres, "publish")
       ELSE /\ result' = [result EXCEPT !.heidi_result = cres,
                                        !.success = TRUE]
            /\ pc' = "done"
            /\ UNCHANGED <<propagated, failedStage>>
    /\ UNCHANGED <<jwt_token, token_expired, token_expiry, call, retry, refreshes, reqCount,
                   cres, lastReq, lastAttempt, exists, forceUsed>>
    /\ UNCHANGED <<params, patient_info_dict, ocr_text_bound, captureCalls,
                   ocrCalls, parseCalls, publishReqs, corrected, authFailed>>


(***************************************************************************)
(* AINavigator (core/ai_locator.py)                                        *)
(*                                                                         *)
(* A decoded vision answer is a JSON value.  Relative coordinates are      *)
(* rationals n/Den; the records below carry the numerator n.               *)
(***************************************************************************)

\* denominator of the relative coordinates the vision service may answer
Den == 3

\* numerators: from below 0.0 to above 1.0
FracRange == (0 - 1)..(Den + 1)

\* most patient rows in one list answer
MaxRows == 3

\* (image width, image height, screen_w, screen_h): scale 1.0 and scale 2.0
Displays == { [w |-> 4, h |-> 3, sw |-> 4, sh |-> 3],
              [w |-> 8, h |-> 6, sw |-> 4, sh |-> 3] }

\* Python int(): truncation towards zero of num/den, den > 0
IntTrunc(num, den) ==
    IF num >= 0 THEN num \div den ELSE 0 - ((0 - num) \div den)

Num(n) == [t |-> "num", n |-> n]

Null == [t |-> "null", n |-> 0]

Str == [t |-> "str", n |-> 0]

Absent == [t |-> "absent", n |-> 0]

Nums == {Num(n) : n \in FracRange}

\* the value under "bbox": a list of four numbers, or something else
GoodBboxes == { [t |-> "list", items |-> <<Num(a), Num(b), Num(c), Num(d)>>] :
                    a, b, c, d \in FracRange }

BadBboxes ==
    { [t |-> "list", items |-> <<Num(0), Num(0), Num(Den)>>],
      [t |-> "list", items |-> <<Num(0), Num(0), Num(Den), Num(Den), Num(Den)>>],
      [t |-> "list", items |-> <<>>],
      [t |-> "list", items |-> <<Num(0), Null, Num(Den), Num(Den)>>],
      [t |-> "list", items |-> <<Num(0), Num(0), Str, Num(Den)>>],
      [t |-> "num", items |-> <<>>],
      [t |-> "null", items |-> <<>>] }

NoBbox == [t |-> "absent", items |-> <<>>]

\* what _call_claude returns for the coarse query.  t = "None" stands for
\* the three ways it returns None: no client, an exception of the request,
\* and text _extract_json_from_text cannot decode.  has is the outcome of
\* '"bbox" in value' for the types that support it.
CoarseValue(t, truthy, has, bbox) ==
    [t |-> t, truthy |-> truthy, has |-> has, bbox |-> bbox]

CoarseAnswers ==
    { CoarseValue("None", FALSE, FALSE, NoBbox),      \* no client / error / undecodable
      CoarseValue("null", FALSE, FALSE, NoBbox),      \* null
      CoarseValue("obj", FALSE, FALSE, NoBbox),       \* {}
      CoarseValue("obj", TRUE, FALSE, NoBbox),        \* {"error": "..."}
      CoarseValue("list", FALSE, FALSE, NoBbox),      \* []
      CoarseValue("list", TRUE, FALSE, NoBbox),       \* [0.1, 0.2, 0.9, 0.8]
      CoarseValue("list", TRUE, TRUE, NoBbox),        \* ["bbox"]
      CoarseValue("num", FALSE, FALSE, NoBbox),       \* 0
      CoarseValue("num", TRUE, FALSE, NoBbox),        \* 5
      CoarseValue("str", TRUE, FALSE, NoBbox),        \* "no table"
      CoarseValue("str", TRUE, TRUE, NoBbox) }        \* "bbox unknown"
    \cup { CoarseValue("obj", TRUE, TRUE, b) : b \in GoodBboxes \cup BadBboxes }

\* what _call_claude returns for the fine query
FineValue(t, truthy, found, x, y) ==
    [t |-> t, truthy |-> truthy, found |-> found, x |-> x, y |-> y]

FineAnswers ==
    { FineValue("None", FALSE, FALSE, Absent, Absent),
      FineValue("null", FALSE, FALSE, Absent, Absent),
      FineValue("obj", FALSE, FALSE, Absent, Absent),          \* {}
      FineValue("obj", TRUE, FALSE, Absent, Absent),           \* {"found": false}
      FineValue("obj", TRUE, TRUE, Absent, Absent),            \* {"found": true}
      FineValue("obj", TRUE, TRUE, Num(1), Absent),            \* y absent
      FineValue("obj", TRUE, TRUE, Absent, Num(1)),            \* x absent
      FineValue("obj", TRUE, TRUE, Null, Num(1)),              \* x null
      FineValue("obj", TRUE, TRUE, Num(1), Str),               \* y a string
      FineValue("list", FALSE, FALSE, Absent, Absent),         \* []
      FineValue("list", TRUE, FALSE, Absent, Absent),          \* [0.5, 0.1]
      FineValue("num", TRUE, FALSE, Absent, Absent),           \* 1
      FineValue("str", TRUE, FALSE, Absent, Absent) }          \* "not found"
    \cup { FineValue("obj", TRUE, TRUE, x, y) : x, y \in Nums }
    \cup { FineValue("obj", TRUE, FALSE, x, y) : x, y \in {Num(1)} }

NoBox == <<0, 0, 0, 0>>

NoList == [t |-> "None", truthy |-> FALSE, has |-> FALSE, rows |-> <<>>]

NoBatchInput == [op |-> "none", data |-> NoList]

NoBatch == [kind |-> "not called", exc |-> "", rows |-> <<>>]

Returned(status, box) == [status |-> status, exc |-> "", box |-> box]

Raised(exc) == [status |-> "raised", exc |-> exc, box |-> NoBox]

\* int(v * dim) for a decoded JSON value v
PixelExc(e) ==
    IF e.t = "num" THEN ""
    ELSE IF e.t = "str" THEN "ValueError"      \* int("ab" * dim)
    ELSE "TypeError"                           \* None * dim

\* the exception of the first of the four int(.. * ..) that fails, in the
\* order the crop_box tuple evaluates them: xmin, ymin, xmax, ymax
FirstPixelExc(items) ==
    LET order == <<items[2], items[1], items[4], items[3]>>
        bad == {i \in 1..4 : PixelExc(order[i]) # ""}
    IN IF bad = {} THEN ""
       ELSE PixelExc(order[CHOOSE i \in bad : \A j \in bad : i <= j])

\* ai_locator.py:297-302
CropBox(items, d) ==
    << IntTrunc(items[2].n * d.w, Den), IntTrunc(items[1].n * d.h, Den),
       IntTrunc(items[4].n * d.w, Den), IntTrunc(items[3].n * d.h, Den) >>

\* img.crop(crop_box) followed by _encode_pil_image(cropped_img): a box
\* without area cannot be cropped and encoded
CropExc(box) ==
    IF box[3] < box[1] \/ box[4] < box[2] THEN "ValueError"
    ELSE IF box[3] = box[1] \/ box[4] = box[2] THEN "SystemError"
    ELSE ""

\* locate_patient_precise up to the fine query (ai_locator.py:275-321)
CoarsePhase(v, d) ==
    IF v.t = "None" \/ ~v.truthy THEN Returned("None", NoBox)
    ELSE IF v.t \in {"num", "bool"} THEN Raised("TypeError")  \* "bbox" in 5
    ELSE IF ~v.has THEN Returned("None", NoBox)
    ELSE IF v.t # "obj" THEN Raised("TypeError")              \* list/str index
    ELSE IF v.bbox.t # "list" THEN Raised("TypeError")        \* cannot unpack
    ELSE IF Len(v.bbox.items) # 4 THEN Raised("ValueError")   \* unpack count
    ELSE IF FirstPixelExc(v.bbox.items) # ""
         THEN Raised(FirstPixelExc(v.bbox.items))
    ELSE IF CropExc(CropBox(v.bbox.items, d)) # ""
         THEN Raised(CropExc(CropBox(v.bbox.items, d)))
    ELSE Returned("cropped", CropBox(v.bbox.items, d))

Point(x, y) == [kind |-> "point", exc |-> "", x |-> x, y |-> y]

NoPoint == [kind |-> "None", exc |-> "", x |-> 0, y |-> 0]

PointRaised(exc) == [kind |-> "raised", exc |-> exc, x |-> 0, y |-> 0]

NotCalled == [kind |-> "not called", exc |-> "", x |-> 0, y |-> 0]

\* the exception of lines 327-332 for the values under "x" and "y":
\* res_local["x"] * width, res_local["y"] * height, then the sums with
\* crop_box[0] and crop_box[1] (a string times an int is a string, which
\* only the sum rejects)
CoordExc(x, y) ==
    IF x.t = "absent" THEN "KeyError"
    ELSE IF x.t = "null" THEN "TypeError"
    ELSE IF y.t = "absent" THEN "KeyError"
    ELSE IF y.t = "null" THEN "TypeError"
    ELSE IF x.t # "num" \/ y.t # "num" THEN "TypeError"
    ELSE ""

\* int((crop_box[0] + x * (crop_box[2] - crop_box[0])) / scale) with
\* scale = img_w / screen_w  (ai_locator.py:40, 327-336)
Logical(lo, hi, e, img_dim, screen_dim) ==
    IntTrunc((lo * Den + e.n * (hi - lo)) * screen_dim, Den * img_dim)

\* locate_patient_precise from the fine answer on (ai_locator.py:322-342);
\* both divisions use the one scale computed from the widths
FinePhase(v, box, d) ==
    IF v.t = "None" \/ ~v.truthy THEN NoPoint
    ELSE IF v.t # "obj" THEN PointRaised("AttributeError")    \* .get
    ELSE IF ~v.found THEN NoPoint
    ELSE IF CoordExc(v.x, v.y) # "" THEN PointRaised(CoordExc(v.x, v.y))
    ELSE Point(Logical(box[1], box[3], v.x, d.w, d.sw),
               Logical(box[2], box[4], v.y, d.w, d.sw))

LocateInit ==
    /\ display \in Displays
    /\ lpc = "idle"
    /\ crop_box = NoBox
    /\ coarseAnswer = CoarseValue("None", FALSE, FALSE, NoBbox)
    /\ fineAnswer = FineValue("None", FALSE, FALSE, Absent, Absent)
    /\ fineQueries = 0
    /\ locResult = NotCalled

\* no operation of the navigator has been called yet
NavigatorIdle ==
    /\ lpc = "idle"
    /\ locResult = NotCalled
    /\ batchInput = NoBatchInput
    /\ tabResult = NotCalled

\* locate_patient_precise: image opened, coarse query, crop
LocateCoarse(v) ==
    /\ NavigatorIdle
    /\ LET r == CoarsePhase(v, display)
       IN /\ coarseAnswer' = v
          /\ crop_box' = r.box
          /\ fineQueries' = 0
          /\ lpc' = IF r.status = "cropped" THEN "fine" ELSE "done"
          /\ locResult' = IF r.status = "cropped" THEN NotCalled
                          ELSE IF r.status = "raised" THEN PointRaised(r.exc)
                          ELSE NoPoint
    /\ UNCHANGED <<display, fineAnswer, batchInput, batchResult, tabResult>>

\* locate_patient_precise: fine query on the crop, coordinate restore
LocateFine(v) ==
    /\ lpc = "fine"
    /\ fineAnswer' = v
    /\ fineQueries' = fineQueries + 1
    /\ locResult' = FinePhase(v, crop_box, display)
    /\ lpc' = "done"
    /\ UNCHANGED <<display, crop_box, coarseAnswer, batchInput, batchResult,
                   tabResult>>

(***************************************************************************)
(* Batch operations over the rows of one list screenshot                   *)
(***************************************************************************)

\* one element of data["patients"]
Row(t, name, x, y) == [t |-> t, name |-> name, x |-> x, y |-> y]

\* a row with name and both coordinates, a row lacking a coordinate, a row
\* lacking the name, a row whose coordinate is null, a row that is no object
WholeRows == { Row("obj", nm, Num(x), Num(y)) :
                  nm \in {"A", "B"}, x \in {1}, y \in {0, 1} }

PartialRows ==
    { Row("obj", "C", Absent, Num(1)),
      Row("obj", "C", Num(1), Absent),
      Row("obj", "absent", Num(1), Num(1)),
      Row("obj", "C", Null, Num(1)),
      Row("str", "absent", Absent, Absent) }

Rows == WholeRows \cup PartialRows

RECURSIVE SeqsUpTo(_, _)
SeqsUpTo(S, n) ==
    IF n = 0 THEN {<<>>}
    ELSE LET shorter == SeqsUpTo(S, n - 1)
         IN shorter \cup { Append(sq, e) : sq \in shorter, e \in S }

\* what _call_claude_json / _call_claude returns for a list query
ListValue(t, truthy, has, rows) ==
    [t |-> t, truthy |-> truthy, has |-> has, rows |-> rows]

ListAnswers ==
    { NoList,
      ListValue("obj", FALSE, FALSE, <<>>),       \* {}
      ListValue("obj", TRUE, FALSE, <<>>),        \* {"error": "..."}
      ListValue("list", TRUE, FALSE, <<>>),       \* [{"name": ...}]
      ListValue("num", TRUE, FALSE, <<>>) }       \* 3
    \cup { ListValue("obj", TRUE, TRUE, rows) : rows \in SeqsUpTo(Rows, MaxRows) }

ListReturned(rows) == [kind |-> "list", exc |-> "", rows |-> rows]

ListRaised(exc) == [kind |-> "raised", exc |-> exc, rows |-> <<>>]

\* 'data and "patients" in data'
HasPatients(v) ==
    IF v.t = "None" \/ ~v.truthy THEN "no"
    ELSE IF v.t \in {"num", "bool"} THEN "TypeError"
    ELSE IF v.has THEN "yes" ELSE "no"

\* the body of the for loop of locate_all_visible_patients for one row
RowExc(p) ==
    IF p.t # "obj" THEN "AttributeError"                  \* p.get
    ELSE IF p.x.t = "absent" THEN "KeyError"              \* p["x_percent"]
    ELSE IF p.x.t # "num" THEN "TypeError"                \* None * screen_w
    ELSE IF p.y.t = "absent" THEN "KeyError"
    ELSE IF p.y.t # "num" THEN "TypeError"
    ELSE ""

\* ai_locator.py:156-160
RowResult(p, d) ==
    [name |-> IF p.name = "absent" THEN "Unknown" ELSE p.name,
     x |-> IntTrunc(p.x.n * d.sw, Den),
     y |-> IntTrunc(p.y.n * d.sh, Den)]

\* the for loop of locate_all_visible_patients: the first row that cannot be
\* converted raises out of the function
LocateAllRows(rows, d) ==
    LET bad == {i \in 1..Len(rows) : RowExc(rows[i]) # ""}
    IN IF bad = {}
       THEN ListReturned([i \in 1..Len(rows) |-> RowResult(rows[i], d)])
       ELSE ListRaised(RowExc(rows[CHOOSE i \in bad : \A j \in bad : i <= j]))

\* locate_all_visible_patients (ai_locator.py:151-166)
LocateAllVisiblePatientsResult(v, d) ==
    IF HasPatients(v) = "TypeError" THEN ListRaised("TypeError")
    ELSE IF HasPatients(v) = "no" THEN ListReturned(<<>>)
    ELSE IF v.t # "obj" THEN ListRaised("TypeError")
    ELSE LocateAllRows(v.rows, d)

\* the rows as extract_patient_list_data hands them on: unconverted
RawRow(p) == [name |-> p.name, x |-> p.x.n, y |-> p.y.n]

\* extract_patient_list_data (ai_locator.py:262-266)
ExtractPatientListDataResult(v) ==
    IF HasPatients(v) = "TypeError" THEN ListRaised("TypeError")
    ELSE IF HasPatients(v) = "no" THEN ListReturned(<<>>)
    ELSE IF v.t # "obj" THEN ListRaised("TypeError")
    ELSE ListReturned([i \in 1..Len(v.rows) |-> RawRow(v.rows[i])])

BatchInit ==
    /\ batchInput = NoBatchInput
    /\ batchResult = NoBatch
    /\ tabResult = NotCalled

LocateAllVisiblePatients(v) ==
    /\ NavigatorIdle
    /\ batchInput' = [op |-> "locate_all_visible_patients", data |-> v]
    /\ batchResult' = LocateAllVisiblePatientsResult(v, display)
    /\ UNCHANGED <<display, lpc, crop_box, coarseAnswer, fineAnswer,
                   fineQueries, locResult, tabResult>>

ExtractPatientListData(v) ==
    /\ NavigatorIdle
    /\ batchInput' = [op |-> "extract_patient_list_data", data |-> v]
    /\ batchResult' = ExtractPatientListDataResult(v)
    /\ UNCHANGED <<display, lpc, crop_box, coarseAnswer, fineAnswer,
                   fineQueries, locResult, tabResult>>

\* find_tab_or_button (ai_locator.py:182-185); the answer carries the
\* relative coordinates under x_percent and y_percent
TabExc(v) ==
    IF v.x.t = "absent" THEN "KeyError"
    ELSE IF PixelExc(v.x) # "" THEN PixelExc(v.x)
    ELSE IF v.y.t = "absent" THEN "KeyError"
    ELSE PixelExc(v.y)

FindTabOrButtonResult(v, d) ==
    IF v.t = "None" \/ ~v.truthy THEN NoPoint
    ELSE IF v.t # "obj" THEN PointRaised("AttributeError")    \* .get
    ELSE IF ~v.found THEN NoPoint
    ELSE IF TabExc(v) # "" THEN PointRaised(TabExc(v))
    ELSE Point(IntTrunc(v.x.n * d.sw, Den), IntTrunc(v.y.n * d.sh, Den))

FindTabOrButton(v) ==
    /\ NavigatorIdle
    /\ fineAnswer' = v
    /\ tabResult' = FindTabOrButtonResult(v, display)
    /\ UNCHANGED <<display, lpc, crop_box, coarseAnswer, fineQueries,
                   locResult, batchInput, batchResult>>

(***************************************************************************)
(* AINavigator._extract_json_from_text (ai_locator.py:72-96)               *)
(*                                                                         *)
(* A text is a sequence of lexical tokens: the JSON punctuation            *)
(* "{" "}" "[" "]" ",", a key with its colon "k", a scalar literal "v",    *)
(* white space "_", a word of prose "p", the fence opener ```json "F" and  *)
(* the bare fence ``` "E".                                                 *)
(***************************************************************************)

\* deepest nesting of objects in the answers considered
MaxDepth == 2

\* white space between JSON tokens is not significant
Clean(text) == SelectSeq(text, LAMBDA t : t # "_")

RECURSIVE EndValue(_, _), EndMembers(_, _), EndElements(_, _)

\* json.loads, the grammar: the index after the value that starts at i, or
\* 0 if no value starts there
EndValue(t, i) ==
    IF i > Len(t) THEN 0
    ELSE IF t[i] = "v" THEN i + 1
    ELSE IF t[i] = "{"
         THEN IF i + 1 <= Len(t) /\ t[i + 1] = "}" THEN i + 2
              ELSE EndMembers(t, i + 1)
    ELSE IF t[i] = "["
         THEN IF i + 1 <= Len(t) /\ t[i + 1] = "]" THEN i + 2
              ELSE EndElements(t, i + 1)
    ELSE 0

\* "key": value, then "," and more members, or "}"
EndMembers(t, i) ==
    IF i > Len(t) \/ t[i] # "k" THEN 0
    ELSE LET j == EndValue(t, i + 1)
         IN IF j = 0 \/ j > Len(t) THEN 0
            ELSE IF t[j] = "," THEN EndMembers(t, j + 1)
            ELSE IF t[j] = "}" THEN j + 1
            ELSE 0

\* value, then "," and more elements, or "]"
EndElements(t, i) ==
    LET j == EndValue(t, i)
    IN IF j = 0 \/ j > Len(t) THEN 0
       ELSE IF t[j] = "," THEN EndElements(t, j + 1)
       ELSE IF t[j] = "]" THEN j + 1
       ELSE 0

NoData == [ok |-> FALSE, value |-> <<>>, by |-> 0]

Parsed(value, by) == [ok |-> TRUE, value |-> value, by |-> by]

\* json.loads(text): the whole text is one JSON value, else JSONDecodeError
JsonLoads(text) ==
    LET t == Clean(text)
    IN IF t # <<>> /\ EndValue(t, 1) = Len(t) + 1
       THEN Parsed(t, 0) ELSE NoData

\* the least element of a non-empty set of indices
Least(S) == CHOOSE i \in S : \A j \in S : i <= j

\* re.search(r'(\{.*?\})', text, re.DOTALL): from the first "{" that has a
\* "}" after it to the first "}" after it; <<>> if there is no match
BraceMatch(text) ==
    LET opens == {i \in 1..Len(text) :
                    text[i] = "{" /\ \E j \in (i + 1)..Len(text) : text[j] = "}"}
    IN IF opens = {} THEN <<>>
       ELSE LET i == Least(opens)
                j == Least({n \in (i + 1)..Len(text) : text[n] = "}"})
            IN SubSeq(text, i, j)

\* re.search(r'```json(.*?)```', text, re.DOTALL): whether it matches
FenceFound(text) ==
    \E i \in 1..Len(text) :
        text[i] = "F" /\ \E j \in (i + 1)..Len(text) : text[j] \in {"E", "F"}

\* group(1) of that match: from the first ```json to the first ``` after it
FenceInterior(text) ==
    LET i == Least({n \in 1..Len(text) :
                      text[n] = "F"
                      /\ \E j \in (n + 1)..Len(text) : text[j] \in {"E", "F"}})
        j == Least({n \in (i + 1)..Len(text) : text[n] \in {"E", "F"}})
    IN SubSeq(text, i + 1, j - 1)

\* _extract_json_from_text: the three steps; a parse error of the brace
\* match or of the fence interior is caught by the one except clause of the
\* second try block, after which the function returns None
ExtractJsonFromText(text) ==
    IF JsonLoads(text).ok THEN Parsed(JsonLoads(text).value, 1)
    ELSE IF BraceMatch(text) # <<>>
         THEN IF JsonLoads(BraceMatch(text)).ok
              THEN Parsed(JsonLoads(BraceMatch(text)).value, 2)
              ELSE NoData
    ELSE IF FenceFound(text)
         THEN IF JsonLoads(FenceInterior(text)).ok
              THEN Parsed(JsonLoads(FenceInterior(text)).value, 3)
              ELSE NoData
    ELSE NoData

\* ---- the answers considered ----

\* an object nested into another: as the value of a key, as the elements
\* of an array under a key, and after a first scalar member
NestInto(o) ==
    { <<"{", "k">> \o o \o <<"}">>,
      <<"{", "k", "[">> \o o \o <<",", "_">> \o o \o <<"]", "}">>,
      <<"{", "k", "v", ",", "_", "k">> \o o \o <<"}">> }

RECURSIVE Objects(_)
Objects(depth) ==
    IF depth = 0
    THEN { <<"{", "}">>, <<"{", "k", "_", "v", "}">> }
    ELSE Objects(0) \cup UNION { NestInto(o) : o \in Objects(depth - 1) }

\* answers that are no object: arrays, a scalar, a truncated object, prose
OtherBodies ==
    { <<"[", "v", ",", "v", "]">>,
      <<"[", "{", "k", "v", "}", "]">>,
      <<"v">>,
      <<"{", "k", "v">>,
      <<"p", "_", "p">>,
      <<>> }

Bodies == Objects(MaxDepth) \cup OtherBodies

\* prose before and after the answer: none, words, words with braces in them
Prefixes == { <<>>, <<"p", "_">>, <<"p", "_", "p", "_">>,
              <<"p", "_", "{", "p", "}", "_">> }

Suffixes == { <<>>, <<"_", "p">>, <<"_", "p", "}">> }

Texts == [prefix : Prefixes, body : Bodies, suffix : Suffixes,
          fenced : BOOLEAN]

\* response.content[0].text
TextOf(r) ==
    r.prefix
    \o (IF r.fenced THEN <<"F", "_">> \o r.body \o <<"_", "E">> ELSE r.body)
    \o r.suffix

NoText == [prefix |-> <<>>, body |-> <<>>, suffix |-> <<>>, fenced |-> FALSE]

NotDecoded == [ok |-> FALSE, value |-> <<>>, by |-> 0 - 1]

\* no text has been decoded
DecodeIdle ==
    /\ rawText = NoText
    /\ decoded = NotDecoded

\* a text arrives from the vision service
DecodeInit ==
    /\ rawText \in Texts
    /\ decoded = NotDecoded

\* _call_claude / _call_claude_json hand the text to the decoder
ExtractJson ==
    /\ decoded = NotDecoded
    /\ decoded' = ExtractJsonFromText(TextOf(rawText))
    /\ UNCHANGED rawText

(***************************************************************************)
(* ocr_parser._normalize_date (ocr_parser.py:336-375)                      *)
(*                                                                         *)
(* A date text is a sequence of characters: the digits, "-", "/", and the  *)
(* year, month and day markers written "nian", "yue", "ri".                *)
(***************************************************************************)

DigitChars == <<"0", "1", "2", "3", "4", "5", "6", "7", "8", "9">>

IsDigit(c) == \E i \in 1..Len(DigitChars) : DigitChars[i] = c

DigitOf(c) == (CHOOSE i \in 1..Len(DigitChars) : DigitChars[i] = c) - 1

AllDigits(f) == \A i \in 1..Len(f) : IsDigit(f[i])

RECURSIVE Val(_)
\* the number a digit string denotes
Val(f) ==
    IF f = <<>> THEN 0
    ELSE Val(SubSeq(f, 1, Len(f) - 1)) * 10 + DigitOf(f[Len(f)])

\* ocr_parser.py:353  replace year and month markers by "-", drop the day marker
CleanDate(raw) ==
    LET kept == SelectSeq(raw, LAMBDA c : c # "ri")
    IN [i \in 1..Len(kept) |->
           IF kept[i] \in {"nian", "yue"} THEN "-" ELSE kept[i]]

\* variant: the day-first slash template tried before the month-first one
date_formats_DayFirst ==
    <<"%Y-%m-%d", "%Y/%m/%d", "%d/%m/%Y", "%m/%d/%Y", "%Y%m%d">>

\* ocr_parser.py:356-362
date_formats == <<"%Y-%m-%d", "%Y/%m/%d", "%m/%d/%Y", "%d/%m/%Y", "%Y%m%d">>

\* strptime directives: %Y is four digits, %m is 1..12 and %d is 1..31 in
\* one or two digits
YearField(f) == Len(f) = 4 /\ AllDigits(f)

MonthField(f) ==
    /\ AllDigits(f)
    /\ \/ Len(f) = 2 /\ Val(f) \in 1..12
       \/ Len(f) = 1 /\ Val(f) \in 1..9

DayField(f) ==
    /\ AllDigits(f)
    /\ \/ Len(f) = 2 /\ Val(f) \in 1..31
       \/ Len(f) = 1 /\ Val(f) \in 1..9

IsLeap(y) == (y % 4 = 0 /\ y % 100 # 0) \/ y % 400 = 0

DaysIn(y, m) ==
    IF m = 2 THEN (IF IsLeap(y) THEN 29 ELSE 28)
    ELSE IF m \in {4, 6, 9, 11} THEN 30 ELSE 31

\* datetime(y, m, d) raises ValueError for a date that does not exist
ValidDate(y, m, d) == y \in 1..9999 /\ m \in 1..12 /\ d \in 1..DaysIn(y, m)

NoDate == [ok |-> FALSE, y |-> 0, m |-> 0, d |-> 0]

\* the date of three matched fields, if it exists
DateOf(yf, mf, df) ==
    IF YearField(yf) /\ MonthField(mf) /\ DayField(df)
       /\ ValidDate(Val(yf), Val(mf), Val(df))
    THEN [ok |-> TRUE, y |-> Val(yf), m |-> Val(mf), d |-> Val(df)]
    ELSE NoDate

\* the three fields of a text with exactly two separators sep
SplitOn(text, sep) ==
    LET at == {i \in 1..Len(text) : text[i] = sep}
    IN IF Cardinality(at) # 2 THEN <<>>
       ELSE LET p == CHOOSE i \in at : \A j \in at : i <= j
                q == CHOOSE i \in at : \A j \in at : j <= i
            IN << SubSeq(text, 1, p - 1), SubSeq(text, p + 1, q - 1),
                  SubSeq(text, q + 1, Len(text)) >>

\* %Y%m%d on a run of digits: the month takes the first alternative of
\* 1[0-2] | 0[1-9] | [1-9] after which the rest is a day
CompactDate(text) ==
    IF ~AllDigits(text) \/ Len(text) < 6 \/ Len(text) > 8 THEN NoDate
    ELSE LET yf == SubSeq(text, 1, 4)
             rest == SubSeq(text, 5, Len(text))
             two == SubSeq(rest, 1, 2)
             afterTwo == SubSeq(rest, 3, Len(rest))
             one == SubSeq(rest, 1, 1)
             afterOne == SubSeq(rest, 2, Len(rest))
         IN IF MonthField(two) /\ DayField(afterTwo) THEN DateOf(yf, two, afterTwo)
            ELSE IF MonthField(one) /\ DayField(afterOne) THEN DateOf(yf, one, afterOne)
            ELSE NoDate

\* datetime.strptime(text, fmt): the date, or ValueError (ok = FALSE)
Strptime(text, fmt) ==
    IF fmt = "%Y%m%d" THEN CompactDate(text)
    ELSE LET sep == IF fmt = "%Y-%m-%d" THEN "-" ELSE "/"
             f == SplitOn(text, sep)
         IN IF f = <<>> THEN NoDate
            ELSE IF fmt \in {"%Y-%m-%d", "%Y/%m/%d"} THEN DateOf(f[1], f[2], f[3])
            ELSE IF fmt = "%m/%d/%Y" THEN DateOf(f[3], f[1], f[2])
            ELSE DateOf(f[3], f[2], f[1])

Pad2(n) == <<DigitChars[(n \div 10) + 1], DigitChars[(n % 10) + 1]>>

\* parsed_date.strftime("%Y-%m-%d") for a year of four digits
Strftime(dt) ==
    Pad2(dt.y \div 100) \o Pad2(dt.y % 100) \o <<"-">> \o Pad2(dt.m)
        \o <<"-">> \o Pad2(dt.d)

RECURSIVE TryFormats(_, _, _)
\* the for loop over date_formats from format i on; <<>> if none parses
TryFormats(text, fmts, i) ==
    IF i > Len(fmts) THEN <<>>
    ELSE IF Strptime(text, fmts[i]).ok THEN Strftime(Strptime(text, fmts[i]))
    ELSE TryFormats(text, fmts, i + 1)

\* _normalize_date
NormalizeDate(raw) ==
    LET out == TryFormats(CleanDate(raw), date_formats, 1)
    IN IF out = <<>> THEN raw ELSE out

\* ---- the date texts considered ----
YearTexts == { <<"1", "9", "7", "0">>, <<"2", "0", "2", "4">> }

\* one and two digit fields, months and days, some out of range
FieldTexts == { <<"1">>, <<"0", "2">>, <<"1", "2">>, <<"1", "3">>,
                <<"2", "9">>, <<"3", "1">>, <<"3", "2">>, <<"0", "0">> }

\* year first: 1970-01-02, 1970/1/2, 1970nian1yue2ri, mixed separators
YearFirstDates ==
    { y \o <<s1>> \o a \o <<s2>> \o b \o tail :
        y \in YearTexts, a \in FieldTexts, b \in FieldTexts,
        s1 \in {"-", "/", "nian"}, s2 \in {"-", "/", "yue"},
        tail \in {<<>>, <<"ri">>} }

\* year last: 01/02/1970, 13-02-1970
YearLastDates ==
    { a \o <<s>> \o b \o <<s>> \o y :
        y \in YearTexts, a \in FieldTexts, b \in FieldTexts, s \in {"-", "/"} }

\* no separators: 19700102
CompactDates ==
    { y \o a \o b : y \in YearTexts, a \in FieldTexts, b \in FieldTexts }

RawDates == YearFirstDates \cup YearLastDates \cup CompactDates

NotNormalized == <<"not called">>

(***************************************************************************)
(* ocr_parser.parse_patient_info (ocr_parser.py:116-333)                   *)
(*                                                                         *)
(* The screen text is a label and a value per field.  Labels: "chusheng"   *)
(* for the CJK birth-date labels, "DOB" for the Latin ones, "xingbie" for  *)
(* the CJK gender label, "Gender".  Gender values: "nan" and "nv" are the  *)
(* CJK characters for male and female.  "" is a field not on the screen.   *)
(***************************************************************************)

NoMatch == <<>>

NoneText == <<"<None>">>

\* \d{4} sep \d{1,2} sep \d{1,2} and, where the pattern has it, an optional
\* day marker: the text matched at the start of the value, digits greedy
YearFirstMatch(text, seps1, seps2, marker) ==
    LET fits == { w \in (1..2) \X (1..2) :
                    /\ Len(text) >= 6 + w[1] + w[2]
                    /\ AllDigits(SubSeq(text, 1, 4))
                    /\ text[5] \in seps1
                    /\ AllDigits(SubSeq(text, 6, 5 + w[1]))
                    /\ text[6 + w[1]] \in seps2
                    /\ AllDigits(SubSeq(text, 7 + w[1], 6 + w[1] + w[2])) }
    IN IF fits = {} THEN NoMatch
       ELSE LET w == CHOOSE v \in fits :
                        \A u \in fits : u[1] + u[2] <= v[1] + v[2]
                n == 6 + w[1] + w[2]
            IN IF marker /\ Len(text) > n /\ text[n + 1] = "ri"
               THEN SubSeq(text, 1, n + 1) ELSE SubSeq(text, 1, n)

\* \d{1,2}[-/]\d{1,2}[-/]\d{4}
YearLastMatch(text) ==
    LET fits == { w \in (1..2) \X (1..2) :
                    /\ Len(text) >= 6 + w[1] + w[2]
                    /\ AllDigits(SubSeq(text, 1, w[1]))
                    /\ text[1 + w[1]] \in {"-", "/"}
                    /\ AllDigits(SubSeq(text, 2 + w[1], 1 + w[1] + w[2]))
                    /\ text[2 + w[1] + w[2]] \in {"-", "/"}
                    /\ AllDigits(SubSeq(text, 3 + w[1] + w[2],
                                        6 + w[1] + w[2])) }
    IN IF fits = {} THEN NoMatch
       ELSE LET w == CHOOSE v \in fits : TRUE
            IN SubSeq(text, 1, 6 + w[1] + w[2])

\* ocr_parser.py:213-220  birth_date_patterns, the first that matches
BirthDateMatchCn(label, text) ==
    IF label = "chusheng"
       /\ YearFirstMatch(text, {"-", "/", "nian"}, {"-", "/", "yue"}, TRUE) # NoMatch
    THEN YearFirstMatch(text, {"-", "/", "nian"}, {"-", "/", "yue"}, TRUE)
    ELSE IF label = "DOB"
            /\ YearFirstMatch(text, {"-", "/"}, {"-", "/"}, FALSE) # NoMatch
    THEN YearFirstMatch(text, {"-", "/"}, {"-", "/"}, FALSE)
    ELSE YearFirstMatch(text, {"-", "/", "nian"}, {"-", "/", "yue"}, TRUE)

\* ocr_parser.py:292-296  year last, else year first, after a Latin label
BirthDateMatchEn(label, text) ==
    IF label # "DOB" THEN NoMatch
    ELSE IF YearLastMatch(text) # NoMatch THEN YearLastMatch(text)
    ELSE YearFirstMatch(text, {"-", "/"}, {"-", "/"}, FALSE)

\* str.lower() of the gender values
Lower ==
    [nan |-> "nan", nv |-> "nv", Male |-> "male", FEMALE |-> "female",
     M |-> "m", F |-> "f", f |-> "f", Unknown |-> "unknown"]

\* the first character of the Latin gender values
Initial == [Male |-> "M", FEMALE |-> "F", M |-> "M", f |-> "f"]

\* ocr_parser.py:320-330
gender_map ==
    [nan |-> "MALE", nv |-> "FEMALE", male |-> "MALE", female |-> "FEMALE",
     m |-> "MALE", f |-> "FEMALE"]

\* _normalize_gender
NormalizeGender(gender_raw) ==
    IF Lower[gender_raw] \in DOMAIN gender_map
    THEN gender_map[Lower[gender_raw]] ELSE "OTHER"

\* ocr_parser.py:200-203  ([nan nv]|Male|Female|MALE|FEMALE), case ignored
GenderMatchCn(label, text) ==
    IF label \in {"xingbie", "Sex"}
       /\ text \in {"nan", "nv", "Male", "FEMALE"}
    THEN text ELSE ""

\* ocr_parser.py:287  ([MFmf]|Male|Female): the single letter is tried first
GenderMatchEn(label, text) ==
    IF label \in {"Gender", "Sex"} /\ text \in DOMAIN Initial
    THEN Initial[text] ELSE ""

\* ocr_parser.py:189-197  the first character of the first word is the
\* family name, the rest of that word the given name
NameCn(name) ==
    IF name = <<>> THEN <<NoneV, NoneV>> ELSE <<"ohn", "J">>

\* ocr_parser.py:281-284  two words of letters
NameEn(name) ==
    IF Len(name) < 2 THEN <<NoneV, NoneV>> ELSE <<"John", "Doe">>

\* the screens considered
DateLabels == {"chusheng", "DOB"}

GenderLabels == {"Sex"}

GenderTexts == {"", "nan", "FEMALE", "M", "Unknown"}

\* no name, or two Latin words
NameTexts == { <<>>, <<"John", "Doe">> }

Screens ==
    [emr_system : {"generic_cn", "generic_en", "custom"},
     date_label : DateLabels, gender_label : GenderLabels,
     gender : GenderTexts, name : NameTexts, id : {"", "his123456"}]

\* _parse_generic_cn
ParseGenericCn(o, date) ==
    LET m == BirthDateMatchCn(o.date_label, date)
        g == GenderMatchCn(o.gender_label, o.gender)
        n == NameCn(o.name)
    IN [first_name |-> n[1], last_name |-> n[2],
        birth_date |-> IF m = NoMatch THEN NoneText ELSE NormalizeDate(m),
        gender |-> IF g = "" THEN NoneV ELSE NormalizeGender(g),
        ehr_patient_id |-> IF o.id = "" THEN NoneV ELSE "HIS123456"]

\* _parse_generic_en
ParseGenericEn(o, date) ==
    LET m == BirthDateMatchEn(o.date_label, date)
        g == GenderMatchEn(o.gender_label, o.gender)
        n == NameEn(o.name)
    IN [first_name |-> n[1], last_name |-> n[2],
        birth_date |-> IF m = NoMatch THEN NoneText ELSE NormalizeDate(m),
        gender |-> IF g = "" THEN NoneV ELSE NormalizeGender(g),
        ehr_patient_id |-> IF o.id = "" THEN NoneV ELSE "HIS123456"]

\* _validate_patient_info: works out the missing fields, prints them in
\* debug mode, and returns None
ValidatePatientInfo(d) == NoneV

\* ocr_parser.py:153-159
ParsePatientInfoText(o, date) ==
    IF o.emr_system = "generic_en" THEN ParseGenericEn(o, date)
    ELSE ParseGenericCn(o, date)

NoScreen ==
    [emr_system |-> "", date_label |-> "", gender_label |-> "",
     gender |-> "", name |-> <<>>, id |-> ""]

NotParsed == [f \in Fields |-> IF f = "birth_date" THEN NotNormalized ELSE "not called"]

ParseIdle ==
    /\ date_raw = <<>>
    /\ dateNorm = NotNormalized
    /\ ocr = NoScreen
    /\ patient_info = NotParsed

ParseInit ==
    /\ date_raw \in RawDates
    /\ dateNorm = NotNormalized
    /\ ocr = NoScreen
    /\ patient_info = NotParsed

\* a call of _normalize_date on the date text
NormalizeDateCall ==
    /\ dateNorm = NotNormalized
    /\ patient_info = NotParsed
    /\ dateNorm' = NormalizeDate(date_raw)
    /\ UNCHANGED <<date_raw, ocr, patient_info>>

\* a call of parse_patient_info on a screen text with the date text in it
ParseScreenText(o) ==
    /\ dateNorm = NotNormalized
    /\ patient_info = NotParsed
    /\ ocr' = o
    /\ patient_info' = ParsePatientInfoText(o, date_raw)
    /\ UNCHANGED <<date_raw, dateNorm>>

(***************************************************************************)
(* ocr_parser._parse_generic_cn on a text of several lines                 *)
(*                                                                         *)
(* A text is a sequence of lines "label: value"; a line without a label is *)
(* the value alone.  Labels and values are sequences of characters, an     *)
(* ideograph written as its pinyin syllable.  re.search(pattern, text)     *)
(* finds the leftmost line the pattern matches.                            *)
(***************************************************************************)

MaxSegs == 3

xingming == <<"xing", "ming">>

huanzhexingming == <<"huan", "zhe", "xing", "ming">>

NameLabel == <<"N", "a", "m", "e">>

xingbie == <<"xing", "bie">>

SexLabel == <<"S", "e", "x">>

chushengriqi == <<"chu", "sheng", "ri", "qi">>

chusheng == <<"chu", "sheng">>

DOBLabel == <<"D", "O", "B">>

binglihao == <<"bing", "li", "hao">>

MRNLabel == <<"M", "R", "N">>

\* the lines considered: names of two, one and four characters and a name
\* label with nothing after it; genders; dates in four notations; numbers
CnSegments ==
    { [label |-> xingming, value |-> <<"zhang", "san">>],
      [label |-> huanzhexingming, value |-> <<"li">>],
      [label |-> NameLabel, value |-> <<"J", "o", "h", "n">>],
      [label |-> xingming, value |-> <<>>],
      [label |-> xingbie, value |-> <<"nv">>],
      [label |-> SexLabel, value |-> <<"Male">>],
      [label |-> xingbie, value |-> <<"Unknown">>],
      [label |-> chushengriqi,
       value |-> <<"1", "9", "9", "0", "-", "0", "1", "-", "0", "2">>],
      [label |-> chusheng,
       value |-> <<"1", "9", "9", "1", "nian", "3", "yue", "4", "ri">>],
      [label |-> DOBLabel,
       value |-> <<"1", "9", "9", "2", "/", "5", "/", "6">>],
      [label |-> <<>>,
       value |-> <<"1", "9", "9", "3", "nian", "7", "yue", "8", "ri">>],
      [label |-> binglihao, value |-> <<"e", "m", "r", "1">>],
      [label |-> MRNLabel, value |-> <<"a", "2">>],
      [label |-> <<>>, value |-> <<"H", "I", "S", "3">>] }

CnTexts == UNION {[1..n -> CnSegments] : n \in 0..MaxSegs}

\* the literal before [:：] ends the label of the line
EndsWith(label, literal) ==
    /\ Len(literal) <= Len(label)
    /\ SubSeq(label, Len(label) - Len(literal) + 1, Len(label)) = literal

\* the first word of a line
FirstWord(seg) ==
    IF seg.label = <<>> THEN seg.value ELSE seg.label \o <<":">>

\* ocr_parser.py:182-187  the literal of each pattern; all of them end in
\* [:：]\s*([^\n\s]+)
name_patterns ==
    << [field |-> "name", literal |-> xingming],
       [field |-> "name", literal |-> huanzhexingming],
       [field |-> "name", literal |-> <<"bing", "ren", "xing", "ming">>],
       [field |-> "name", literal |-> NameLabel] >>

\* \s*([^\n\s]+) after the label of line i: the value, or, when the line
\* ends after the colon, the first word of the next line
NameCapture(pattern, text, i) ==
    IF ~EndsWith(text[i].label, pattern.literal) \/ text[i].label = <<>>
    THEN NoMatch
    ELSE IF text[i].value # <<>> THEN text[i].value
    ELSE IF i < Len(text) THEN FirstWord(text[i + 1])
    ELSE NoMatch

\* ocr_parser.py:200-203  ([nan nv]|Male|Female|MALE|FEMALE), case ignored
gender_patterns ==
    << [field |-> "gender", literal |-> xingbie],
       [field |-> "gender", literal |-> SexLabel] >>

GenderCapture(pattern, text, i) ==
    IF text[i].label # <<>> /\ EndsWith(text[i].label, pattern.literal)
       /\ text[i].value \in {<<"nan">>, <<"nv">>, <<"Male">>, <<"FEMALE">>}
    THEN text[i].value ELSE NoMatch

\* ocr_parser.py:213-220  the literal, the separators after the year and
\* the month, and whether a day marker may follow; the last has no literal
birth_date_patterns ==
    << [field |-> "birth_date", literal |-> chushengriqi, seps1 |-> {"-", "/", "nian"},
        seps2 |-> {"-", "/", "yue"}, marker |-> TRUE],
       [field |-> "birth_date", literal |-> chusheng, seps1 |-> {"-", "/", "nian"},
        seps2 |-> {"-", "/", "yue"}, marker |-> TRUE],
       [field |-> "birth_date", literal |-> DOBLabel, seps1 |-> {"-", "/"},
        seps2 |-> {"-", "/"}, marker |-> FALSE],
       [field |-> "birth_date",
        literal |-> <<"B", "i", "r", "t", "h", " ", "D", "a", "t", "e">>,
        seps1 |-> {"-", "/"}, seps2 |-> {"-", "/"}, marker |-> FALSE],
       [field |-> "birth_date", literal |-> <<>>, seps1 |-> {"-", "/", "nian"},
        seps2 |-> {"-", "/", "yue"}, marker |-> TRUE] >>

BirthDateCapture(pattern, text, i) ==
    IF pattern.literal = <<>>
       \/ (text[i].label # <<>> /\ EndsWith(text[i].label, pattern.literal))
    THEN YearFirstMatch(text[i].value, pattern.seps1, pattern.seps2,
                        pattern.marker)
    ELSE NoMatch

\* ocr_parser.py:230-238  the literal of each pattern; the last has none
ehr_id_patterns ==
    << [field |-> "ehr_patient_id", literal |-> binglihao],
       [field |-> "ehr_patient_id",
        literal |-> <<"huan", "zhe", "bian", "hao">>],
       [field |-> "ehr_patient_id", literal |-> <<"bing", "ren", "I", "D">>],
       [field |-> "ehr_patient_id", literal |-> MRNLabel],
       [field |-> "ehr_patient_id",
        literal |-> <<"P", "a", "t", "i", "e", "n", "t", " ", "I", "D">>],
       [field |-> "ehr_patient_id", literal |-> <<>>] >>

\* str.upper() of the characters considered
ToUpper == [e |-> "E", m |-> "M", r |-> "R", a |-> "A"]

Upper(word) ==
    [i \in 1..Len(word) |->
        IF word[i] \in DOMAIN ToUpper THEN ToUpper[word[i]] ELSE word[i]]

\* [A-Z0-9], case ignored
IsAlnum(c) == IsDigit(c) \/ c \in {"e", "m", "r", "a", "H", "I", "S"}

\* the longest prefix of letters and digits
RECURSIVE AlnumPrefix(_)
AlnumPrefix(word) ==
    IF word = <<>> \/ ~IsAlnum(Head(word)) THEN <<>>
    ELSE <<Head(word)>> \o AlnumPrefix(Tail(word))

RECURSIVE DigitPrefix(_)
DigitPrefix(word) ==
    IF word = <<>> \/ ~IsDigit(Head(word)) THEN <<>>
    ELSE <<Head(word)>> \o DigitPrefix(Tail(word))

\* (EMR\d+|HIS\d+|P\d{6,}), case ignored, at the start of a value
LooseId(value) ==
    IF Len(value) >= 4
       /\ Upper(SubSeq(value, 1, 3)) \in {<<"E", "M", "R">>, <<"H", "I", "S">>}
       /\ IsDigit(value[4])
    THEN SubSeq(value, 1, 3) \o DigitPrefix(SubSeq(value, 4, Len(value)))
    ELSE IF Len(value) >= 7 /\ Upper(<<value[1]>>) = <<"P">>
            /\ Len(DigitPrefix(Tail(value))) >= 6
    THEN <<value[1]>> \o DigitPrefix(Tail(value))
    ELSE NoMatch

EhrIdCapture(pattern, text, i) ==
    IF pattern.literal = <<>> THEN LooseId(text[i].value)
    ELSE IF text[i].label # <<>> /\ EndsWith(text[i].label, pattern.literal)
    THEN AlnumPrefix(text[i].value)
    ELSE NoMatch

\* the group a pattern captures when it matches at line i
Group(pattern, text, i) ==
    CASE pattern.field = "name" -> NameCapture(pattern, text, i)
      [] pattern.field = "gender" -> GenderCapture(pattern, text, i)
      [] pattern.field = "birth_date" -> BirthDateCapture(pattern, text, i)
      [] OTHER -> EhrIdCapture(pattern, text, i)

\* re.search: the capture at the leftmost line where the pattern matches
Search(pattern, text) ==
    LET hits == {i \in 1..Len(text) : Group(pattern, text, i) # NoMatch}
    IN IF hits = {} THEN NoMatch
       ELSE Group(pattern, text, CHOOSE i \in hits : \A j \in hits : i <= j)

\* variant: the pattern whose match starts first in the text is taken
RECURSIVE FirstPattern_LeftmostOfAll(_, _, _)
FirstPattern_LeftmostOfAll(patterns, text, i) ==
    IF i > Len(text)
    THEN [k |-> 0, consulted |-> Len(patterns), group |-> NoMatch]
    ELSE LET ks == {k \in 1..Len(patterns) :
                        Group(patterns[k], text, i) # NoMatch}
         IN IF ks = {}
            THEN FirstPattern_LeftmostOfAll(patterns, text, i + 1)
            ELSE LET k == CHOOSE k1 \in ks : \A j \in ks : k1 <= j
                 IN [k |-> k, consulted |-> k,
                     group |-> Group(patterns[k], text, i)]

\* the for loop over a list of patterns from pattern k on, left at the
\* first pattern that matches: the pattern, how many were consulted, and
\* the captured group
RECURSIVE FirstPattern(_, _, _)
FirstPattern(patterns, text, k) ==
    IF k > Len(patterns)
    THEN [k |-> 0, consulted |-> Len(patterns), group |-> NoMatch]
    ELSE IF Search(patterns[k], text) # NoMatch
    THEN [k |-> k, consulted |-> k, group |-> Search(patterns[k], text)]
    ELSE FirstPattern(patterns, text, k + 1)

\* variant: the family name is the last character
SplitName_LastCharacter(full_name) ==
    [last_name |-> <<full_name[Len(full_name)]>>,
     first_name |-> SubSeq(full_name, 1, Len(full_name) - 1)]

\* ocr_parser.py:194-196  the first character, and the rest or ""
SplitName(full_name) ==
    [last_name |-> <<full_name[1]>>,
     first_name |-> IF Len(full_name) > 1 THEN Tail(full_name) ELSE <<>>]

\* _parse_generic_cn: the dict, and for each field the pattern that gave
\* the value and the number of patterns consulted
ParseGenericCnText(text) ==
    LET n == FirstPattern(name_patterns, text, 1)
        g == FirstPattern(gender_patterns, text, 1)
        b == FirstPattern(birth_date_patterns, text, 1)
        e == FirstPattern(ehr_id_patterns, text, 1)
    IN [first_name |-> IF n.k = 0 THEN NoneText
                       ELSE SplitName(n.group).first_name,
        last_name |-> IF n.k = 0 THEN NoneText
                      ELSE SplitName(n.group).last_name,
        birth_date |-> IF b.k = 0 THEN NoneText ELSE NormalizeDate(b.group),
        gender |-> IF g.k = 0 THEN NoneV ELSE NormalizeGender(g.group[1]),
        ehr_patient_id |-> IF e.k = 0 THEN NoneText ELSE Upper(e.group),
        full_name |-> n.group,
        used |-> [name |-> n.k, gender |-> g.k, birth_date |-> b.k,
                  ehr_patient_id |-> e.k],
        consulted |-> [name |-> n.consulted, gender |-> g.consulted,
                       birth_date |-> b.consulted,
                       ehr_patient_id |-> e.consulted]]

NotParsedCn == [first_name |-> <<"not called">>]

FieldIdle ==
    /\ cnText = <<>>
    /\ cnInfo = NotParsedCn

FieldInit ==
    /\ cnText \in CnTexts
    /\ cnInfo = NotParsedCn

\* a call of _parse_generic_cn on the text
ParseGenericCnCall ==
    /\ cnInfo = NotParsedCn
    /\ cnInfo' = ParseGenericCnText(cnText)
    /\ UNCHANGED cnText

(***************************************************************************)
(* smart_capture.EMRSystemDetector.detect_emr_system (smart_capture.py)    *)
(*                                                                         *)
(* A recognised text is the set of signature keywords that occur in it     *)
(* (re.search, case ignored) and the script of its other characters.  The  *)
(* CJK keywords are written in pinyin.                                     *)
(***************************************************************************)

MaxWords == 3

\* smart_capture.py:20-46, in declaration order
EMR_SIGNATURES ==
    << [id |-> "generic_cn", min_matches |-> 3,
        keywords |-> <<"xingming", "xingbie", "chushengriqi", "binglihao",
                       "huanzhe", "bingren">>],
       [id |-> "generic_en", min_matches |-> 3,
        keywords |-> <<"Name", "Gender", "Date of Birth", "Patient ID",
                       "MRN", "DOB">>],
       [id |-> "his_cn", min_matches |-> 2,
        keywords |-> <<"HIS", "yiyuanxinxixitong", "zhuyuan", "menzhen",
                       "jiuzhen">>],
       [id |-> "epic", min_matches |-> 1,
        keywords |-> <<"Epic", "MyChart", "Hyperspace">>],
       [id |-> "cerner", min_matches |-> 1,
        keywords |-> <<"Cerner", "PowerChart", "Millennium">>] >>

Profiles == {EMR_SIGNATURES[i].id : i \in 1..Len(EMR_SIGNATURES)}

\* the keywords written in CJK ideographs of the block U+4E00..U+9FFF
CjkKeywords ==
    {"xingming", "xingbie", "chushengriqi", "binglihao", "huanzhe",
     "bingren", "yiyuanxinxixitong", "zhuyuan", "menzhen", "jiuzhen"}

AllKeywords ==
    UNION { {EMR_SIGNATURES[i].keywords[k] :
                k \in 1..Len(EMR_SIGNATURES[i].keywords)} :
            i \in 1..Len(EMR_SIGNATURES) }

\* the other characters of a text: none, Latin letters only, an ideograph
\* of the block U+4E00..U+9FFF, or only ideographs outside that block
\* (U+3400..U+4DBF, U+3007, U+20000 and up)
Scripts == {"empty", "latin", "cjk_basic", "cjk_other"}

RECURSIVE WordSets(_)
\* the sets of at most k keywords
WordSets(k) ==
    IF k = 0 THEN {{}}
    ELSE WordSets(k - 1)
           \cup {T \cup {w} : T \in WordSets(k - 1), w \in AllKeywords}

OcrTexts == [words : WordSets(MaxWords), script : Scripts]

\* smart_capture.py:91  any('\u4e00' <= char <= '\u9fff' for char in ocr_text)
HasBasicIdeograph(text) ==
    text.script = "cjk_basic" \/ text.words \cap CjkKeywords # {}

\* the text contains a CJK ideograph of any block
HasIdeograph(text) == HasBasicIdeograph(text) \/ text.script = "cjk_other"

\* smart_capture.py:72-74  the keywords of a signature found in the text
MatchedKeywords(signature, text) ==
    SelectSeq(signature.keywords, LAMBDA k : k \in text.words)

\* a confidence is the fraction n / d
Confidence(signature, text) ==
    [n |-> Len(MatchedKeywords(signature, text)), d |-> Len(signature.keywords)]

\* variant: a later profile of equal confidence replaces the earlier one
Better_OrEqual(c, best) == c.n * best.d >= best.n * c.d

\* smart_capture.py:84  confidence > best_score
Better(c, best) == c.n * best.d > best.n * c.d

NoBest == [best_match |-> NoneV, best_score |-> [n |-> 0, d |-> 1],
           best_keywords |-> <<>>]

RECURSIVE ScanSignatures(_, _, _)
\* smart_capture.py:68-87  the loop over EMR_SIGNATURES from entry i on
ScanSignatures(text, i, best) ==
    IF i > Len(EMR_SIGNATURES) THEN best
    ELSE LET signature == EMR_SIGNATURES[i]
             matched == MatchedKeywords(signature, text)
         IN IF Len(matched) >= signature.min_matches
               /\ Better(Confidence(signature, text), best.best_score)
            THEN ScanSignatures(text, i + 1,
                    [best_match |-> signature.id,
                     best_score |-> Confidence(signature, text),
                     best_keywords |-> matched])
            ELSE ScanSignatures(text, i + 1, best)

\* detect_emr_system: the result's system_type, confidence, matched_keywords
DetectEmrSystem(text) ==
    LET best == ScanSignatures(text, 1, NoBest)
    IN IF best.best_match # NoneV
       THEN [system_type |-> best.best_match, confidence |-> best.best_score,
             matched_keywords |-> best.best_keywords]
       ELSE IF HasBasicIdeograph(text)
       THEN [system_type |-> "generic_cn", confidence |-> [n |-> 1, d |-> 2],
             matched_keywords |-> <<"cjk characters detected">>]
       ELSE [system_type |-> "generic_en", confidence |-> [n |-> 1, d |-> 2],
             matched_keywords |-> <<"latin characters detected">>]

NoOcrText == [words |-> {}, script |-> "none"]

NotDetected == [system_type |-> "not called", confidence |-> [n |-> 0, d |-> 1],
                matched_keywords |-> <<>>]

DetectIdle ==
    /\ ocr_text = NoOcrText
    /\ detected = NotDetected

DetectInit ==
    /\ ocr_text \in OcrTexts
    /\ detected = NotDetected

\* a call of detect_emr_system on the recognised text
DetectCall ==
    /\ detected = NotDetected
    /\ detected' = DetectEmrSystem(ocr_text)
    /\ UNCHANGED ocr_text

(***************************************************************************)
(* AINavigator._get_pixel_scale (ai_locator.py:34-41)                      *)
(***************************************************************************)

MaxWidth == 8

\* a scale is the fraction n / d
GetPixelScale(img_w, screen_w) ==
    IF screen_w = 0 THEN [t |-> "raised", exc |-> "ZeroDivisionError",
                          n |-> 0, d |-> 1]
    ELSE [t |-> "returned", exc |-> NoneV, n |-> img_w, d |-> screen_w]

\* image widths of a screenshot, and screen widths pyautogui.size() may give
ScaleInputs == [img_w : 1..MaxWidth, screen_w : -2..MaxWidth]

NoScaleInput == [img_w |-> 0, screen_w |-> 0]

NoScale == [t |-> "not called", exc |-> NoneV, n |-> 0, d |-> 1]

ScaleIdle ==
    /\ scaleInput = NoScaleInput
    /\ scaleResult = NoScale

ScaleInit ==
    /\ scaleInput \in ScaleInputs
    /\ scaleResult = NoScale

\* a call of _get_pixel_scale
GetPixelScaleCall ==
    /\ scaleResult = NoScale
    /\ scaleResult' = GetPixelScale(scaleInput.img_w, scaleInput.screen_w)
    /\ UNCHANGED scaleInput

(***************************************************************************)
(* The consumers of the recognition engine: ocr_parser.run_ocr and         *)
(* MouseController.find_and_click_patient.  A recognised line is its text, *)
(* its confidence in tenths and the row of its centre.                     *)
(***************************************************************************)

\* OCR_CONFIDENCE_THRESHOLD = 0.6, in tenths
OCR_CONFIDENCE_THRESHOLD == 6

MaxLines == 3

\* a CJK name followed by a gender, a Latin first and last name, a number
LineTexts == {"zhangsan nan", "John Doe", "12"}

WordInfos == [text : LineTexts, confidence : 5..7, y : 1..2]

OcrPages == UNION {[1..n -> WordInfos] : n \in 0..MaxLines}

\* the loop body of run_ocr over the lines still to visit
RECURSIVE AppendConfident(_, _)
AppendConfident(text_lines, rest) ==
    IF rest = <<>> THEN text_lines
    ELSE AppendConfident(
             IF Head(rest).confidence >= OCR_CONFIDENCE_THRESHOLD
             THEN Append(text_lines, Head(rest).text)
             ELSE text_lines,
             Tail(rest))

\* run_ocr: the retained texts are joined with newlines; the joined text is
\* kept as the sequence of its lines
run_ocr(page, o) ==
    CASE o = "missing" ->
            [t |-> "raised", exc |-> "FileNotFoundError", text_lines |-> <<>>]
      [] o = "engine_error" ->
            [t |-> "raised", exc |-> "RuntimeError", text_lines |-> <<>>]
      [] OTHER ->
            [t |-> "returned", exc |-> NoneV,
             text_lines |-> AppendConfident(<<>>, page)]

\* the texts of the alphabet that each regular expression finds, in the
\* order of the list
patient_patterns ==
    << {"zhangsan nan"}, {}, {}, {}, {}, {"John Doe"}, {} >>

MatchesPatient(text) ==
    \E i \in 1..Len(patient_patterns) : text \in patient_patterns[i]

\* the inner loop over ocr_results: every line that some pattern matches
RECURSIVE MatchedPatients(_)
MatchedPatients(ocr_results) ==
    IF ocr_results = <<>> THEN <<>>
    ELSE IF MatchesPatient(Head(ocr_results).text)
         THEN <<Head(ocr_results)>> \o MatchedPatients(Tail(ocr_results))
         ELSE MatchedPatients(Tail(ocr_results))

\* list.sort(key = row of the centre) is stable
RECURSIVE InsertByY(_, _)
InsertByY(p, sorted) ==
    IF sorted = <<>> THEN <<p>>
    ELSE IF Head(sorted).y <= p.y
         THEN <<Head(sorted)>> \o InsertByY(p, Tail(sorted))
         ELSE <<p>> \o sorted

RECURSIVE SortByY(_)
SortByY(matched) ==
    IF matched = <<>> THEN <<>>
    ELSE InsertByY(matched[Len(matched)],
                   SortByY(SubSeq(matched, 1, Len(matched) - 1)))

NoTarget == [text |-> "", confidence |-> 0, y |-> 0]

find_and_click_patient(page, captured, engine_ok) ==
    IF ~captured
    THEN [t |-> "raised", value |-> FALSE, target |-> NoTarget]
    ELSE IF ~engine_ok \/ page = <<>> \/ MatchedPatients(page) = <<>>
    THEN [t |-> "returned", value |-> FALSE, target |-> NoTarget]
    ELSE [t |-> "returned", value |-> TRUE,
          target |-> SortByY(MatchedPatients(page))[1]]

NoOcrResult == [t |-> "not called", exc |-> NoneV, text_lines |-> <<>>]

NoClick == [t |-> "not called", value |-> FALSE, target |-> NoTarget]

OcrIdle ==
    /\ ocrPage = <<>>
    /\ ocrResult = NoOcrResult
    /\ clickResult = NoClick

OcrInit ==
    /\ ocrPage \in OcrPages
    /\ ocrResult = NoOcrResult
    /\ clickResult = NoClick

\* a call of run_ocr on the screenshot
RunOcrOnPage(o) ==
    /\ ocrResult = NoOcrResult
    /\ ocrResult' = run_ocr(ocrPage, o)
    /\ UNCHANGED <<ocrPage, clickResult>>

\* a call of find_and_click_patient on the same screen
FindAndClickPatient(captured, engine_ok) ==
    /\ clickResult = NoClick
    /\ clickResult' = find_and_click_patient(ocrPage, captured, engine_ok)
    /\ UNCHANGED <<ocrPage, ocrResult>>

(***************************************************************************)
(* RPAWorkflow.run_full_workflow                                           *)
(***************************************************************************)

\* the names appended to steps_completed, in the order of the steps
StepNames == <<"step1_launch", "step2_ai_click", "step3_ai_extract",
               "step4_send">>

\* result["error"]: None, "步骤 N 失败: ..." (a step returned failure, the
\* text names step N) or "工作流异常: ..." (an exception, no step named)
NoWorkflowError == [kind |-> NoneV, step |-> 0]

StepFailed(n) == [kind |-> "step failed", step |-> n]

WorkflowException == [kind |-> "workflow exception", step |-> 0]

\* a dict of extracted fields is the set of its keys with non-empty values
NoPatientData == {"<None>"}

\* rpa_automation.py:770-775
NoWorkflowResult ==
    [success |-> FALSE, steps_completed |-> <<>>,
     patient_data |-> NoPatientData, error |-> NoWorkflowError]

RpaIdle ==
    /\ wpc = "off"
    /\ wresult = NoWorkflowResult
    /\ invoked = <<>>

RpaInit ==
    /\ wpc = "idle"
    /\ wresult = NoWorkflowResult
    /\ invoked = <<>>

\* run_full_workflow is entered: the result dict is created
StartWorkflow ==
    /\ wpc \in {"idle", "done"}
    /\ wpc' = "step1"
    /\ wresult' = NoWorkflowResult
    /\ invoked' = <<>>

\* what run_full_workflow does with the outcome of step n: "ok" appends the
\* name and goes on, "failed" records the step and returns, "raised" is
\* caught by the except clause of the workflow
AfterStep(n, outcome, data) ==
    /\ invoked' = Append(invoked, [step |-> StepNames[n], outcome |-> outcome])
    /\ CASE outcome = "ok" ->
               /\ wresult' = [wresult EXCEPT
                     !.steps_completed = Append(@, StepNames[n]),
                     !.patient_data = IF n = 3 THEN data ELSE @,
                     !.success = (n = 4)]
               /\ wpc' = IF n = 4 THEN "done"
                         ELSE IF n = 1 THEN "step2"
                         ELSE IF n = 2 THEN "step3" ELSE "step4"
         [] outcome = "failed" ->
               /\ wresult' = [wresult EXCEPT !.error = StepFailed(n)]
               /\ wpc' = "done"
         [] OTHER ->
               /\ wresult' = [wresult EXCEPT !.error = WorkflowException]
               /\ wpc' = "done"

\* step1_launch_applications: False when the browser does not open; the
\* input() prompt is outside any try
Step1Outcome(browser_ok, input_ok) ==
    IF ~browser_ok THEN "failed" ELSE IF ~input_ok THEN "raised" ELSE "ok"

Step1(browser_ok, input_ok) ==
    /\ wpc = "step1"
    /\ AfterStep(1, Step1Outcome(browser_ok, input_ok), NoPatientData)

\* step2_ai_find_and_click_patient: capture_full_screen() is outside the
\* try; inside it, an answer without coordinates or any exception is False.
\* located is what navigator.locate_emr_patient_row answers; AINavigator in
\* ai_locator.py defines no such method, so with that class the answer is
\* always "raised" (AttributeError)
Step2Outcome(captured, located) ==
    IF ~captured THEN "raised"
    ELSE IF located = "coords" THEN "ok" ELSE "failed"

Step2(captured, located) ==
    /\ wpc = "step2"
    /\ AfterStep(2, Step2Outcome(captured, located), NoPatientData)

\* step3_ai_extract_smart with max_extraction_loops = 1: nothing is caught;
\* success when at least one non-empty field was collected
Step3Outcome(o, collected_data) ==
    IF o # "ok" THEN "raised"
    ELSE IF collected_data # {} THEN "ok" ELSE "failed"

Step3(o, collected_data) ==
    /\ wpc = "step3"
    /\ AfterStep(3, Step3Outcome(o, collected_data), collected_data)

\* step4_send_to_heidi: True when an API call gave a result, otherwise the
\* result of the clipboard fallback
Step4Outcome(api, clipboard_ok) ==
    IF api \in {"patients", "profile"} \/ clipboard_ok THEN "ok" ELSE "failed"

Step4(api, clipboard_ok) ==
    /\ wpc = "step4"
    /\ AfterStep(4, Step4Outcome(api, clipboard_ok), NoPatientData)

(***************************************************************************)
(* Specifications                                                          *)
(***************************************************************************)

Init ==
    /\ ClientInit /\ PipeInit /\ LocateInit /\ BatchInit
    /\ DecodeIdle /\ ParseIdle /\ DetectIdle /\ ScaleIdle /\ OcrIdle /\ RpaIdle /\ FieldIdle

\* the inputs a frame reads: the GET /jwt outcome of _ensure_authenticated is
\* read only without a token, that of the refresh only on the 401 branch,
\* the profile list only from a 2xx answer to the lookup
EnsureInputs == IF jwt_token = NoneV THEN AuthOutcomes ELSE {"token"}

RefreshInputs(so) ==
    IF Decide(so, retry) = "refresh_retry" THEN AuthOutcomes ELSE {"token"}

LookupInputs ==
    IF cpc \in {"lookup", "create", "update"}
    THEN LookupShapes(exists[call.id]) ELSE {}

\* ---- callers of a HeidiClient object ----
CallAuthenticate ==
    \E force_refresh \in BOOLEAN, ao \in AuthOutcomes :
        Authenticate(force_refresh, ao) /\ UNCHANGED <<pipeVars, locVars, decodeVars, parseVars, detectVars, scaleVars, ocrVars, rpaVars, fieldVars>>

TokenExpires == Expire /\ UNCHANGED <<pipeVars, locVars, decodeVars, parseVars, detectVars, scaleVars, ocrVars, rpaVars, fieldVars>>

CallCreateOrUpdate ==
    \E id \in Ids, force_create \in BOOLEAN :
        CreateOrUpdatePatientProfile(id, force_create) /\ UNCHANGED <<pipeVars, locVars, decodeVars, parseVars, detectVars, scaleVars, ocrVars, rpaVars, fieldVars>>

SendRequest ==
    \E so \in Outcomes, ao1 \in EnsureInputs, shape \in LookupInputs :
        \E ao2 \in RefreshInputs(so) :
            MakeApiRequest(so, ao1, ao2, shape) /\ UNCHANGED <<pipeVars, locVars, decodeVars, parseVars, detectVars, scaleVars, ocrVars, rpaVars, fieldVars>>

CallReturns == ReturnToCaller /\ UNCHANGED <<pipeVars, locVars, decodeVars, parseVars, detectVars, scaleVars, ocrVars, rpaVars, fieldVars>>

CallCreatePatient ==
    \E id \in Ids, so \in Outcomes, ao \in EnsureInputs :
        CreatePatient(id, so, ao) /\ UNCHANGED <<pipeVars, locVars, decodeVars, parseVars, detectVars, scaleVars, ocrVars, rpaVars, fieldVars>>

Next ==
    \/ CallAuthenticate
    \/ TokenExpires
    \/ CallCreateOrUpdate
    \/ SendRequest
    \/ CallReturns
    \/ CallCreatePatient

InitClient == Init /\ display = [w |-> 4, h |-> 3, sw |-> 4, sh |-> 3]

Spec == InitClient /\ [][Next]_vars

\* ---- one run of the pipeline after another ----
RunStarts ==
    \E smart_mode, skip_confirmation, manual \in BOOLEAN :
        StartRun(smart_mode, skip_confirmation, manual) /\ UNCHANGED <<locVars, decodeVars, parseVars, detectVars, scaleVars, ocrVars, rpaVars, fieldVars>>

RunValidateConfig ==
    \E valid \in BOOLEAN : ValidateConfig(valid) /\ UNCHANGED <<locVars, decodeVars, parseVars, detectVars, scaleVars, ocrVars, rpaVars, fieldVars>>

RunReadyPrompt ==
    \E ready \in BOOLEAN : ReadyPrompt(ready) /\ UNCHANGED <<locVars, decodeVars, parseVars, detectVars, scaleVars, ocrVars, rpaVars, fieldVars>>

RunCapture ==
    \E o \in CaptureOutcomes : Capture(o) /\ UNCHANGED <<locVars, decodeVars, parseVars, detectVars, scaleVars, ocrVars, rpaVars, fieldVars>>

RunRecognize ==
    \E o \in OcrOutcomes : RunOcr(o) /\ UNCHANGED <<locVars, decodeVars, parseVars, detectVars, scaleVars, ocrVars, rpaVars, fieldVars>>

RunParse ==
    \E rec \in ParseOutputs : ParsePatientInfo(rec) /\ UNCHANGED <<locVars, decodeVars, parseVars, detectVars, scaleVars, ocrVars, rpaVars, fieldVars>>

RunConfirm ==
    \E is_correct \in BOOLEAN, typed \in TypedInputs :
        ConfirmAndCorrect(is_correct, typed) /\ UNCHANGED <<locVars, decodeVars, parseVars, detectVars, scaleVars, ocrVars, rpaVars, fieldVars>>

RunValidate == ValidateAndBuild /\ UNCHANGED <<locVars, decodeVars, parseVars, detectVars, scaleVars, ocrVars, rpaVars, fieldVars>>

RunAuthenticate ==
    \E ao \in AuthOutcomes : AuthenticateRun(ao) /\ UNCHANGED <<locVars, decodeVars, parseVars, detectVars, scaleVars, ocrVars, rpaVars, fieldVars>>

RunPublishRequest ==
    \E so \in Outcomes, ao1 \in EnsureInputs, shape \in LookupInputs :
        \E ao2 \in RefreshInputs(so) :
            PublishRequest(so, ao1, ao2, shape) /\ UNCHANGED <<locVars, decodeVars, parseVars, detectVars, scaleVars, ocrVars, rpaVars, fieldVars>>

RunPublishReturns == PublishReturn /\ UNCHANGED <<locVars, decodeVars, parseVars, detectVars, scaleVars, ocrVars, rpaVars, fieldVars>>

NextPipeline ==
    \/ RunStarts
    \/ RunValidateConfig
    \/ RunReadyPrompt
    \/ RunCapture
    \/ RunRecognize
    \/ RunParse
    \/ RunConfirm
    \/ RunValidate
    \/ RunAuthenticate
    \/ RunPublishRequest
    \/ RunPublishReturns

InitPipeline == Init /\ display = [w |-> 4, h |-> 3, sw |-> 4, sh |-> 3]

SpecPipeline == InitPipeline /\ [][NextPipeline]_vars

\* ---- callers of an AINavigator object ----
CallLocateCoarse ==
    \E v \in CoarseAnswers :
        LocateCoarse(v) /\ UNCHANGED <<clientVars, pipeVars, decodeVars, parseVars, detectVars, scaleVars, ocrVars, rpaVars, fieldVars>>

CallLocateFine ==
    \E v \in FineAnswers :
        LocateFine(v) /\ UNCHANGED <<clientVars, pipeVars, decodeVars, parseVars, detectVars, scaleVars, ocrVars, rpaVars, fieldVars>>

CallLocateAllVisiblePatients ==
    \E v \in ListAnswers :
        LocateAllVisiblePatients(v) /\ UNCHANGED <<clientVars, pipeVars, decodeVars, parseVars, detectVars, scaleVars, ocrVars, rpaVars, fieldVars>>

CallExtractPatientListData ==
    \E v \in ListAnswers :
        ExtractPatientListData(v) /\ UNCHANGED <<clientVars, pipeVars, decodeVars, parseVars, detectVars, scaleVars, ocrVars, rpaVars, fieldVars>>

CallFindTabOrButton ==
    \E v \in FineAnswers :
        FindTabOrButton(v) /\ UNCHANGED <<clientVars, pipeVars, decodeVars, parseVars, detectVars, scaleVars, ocrVars, rpaVars, fieldVars>>

NextLocate ==
    \/ CallFindTabOrButton
    \/ CallLocateCoarse
    \/ CallLocateFine
    \/ CallLocateAllVisiblePatients
    \/ CallExtractPatientListData

SpecLocate == Init /\ [][NextLocate]_vars

\* ---- the decoder applied to one text ----
CallExtractJson ==
    ExtractJson
        /\ UNCHANGED <<clientVars, pipeVars, locVars, parseVars, detectVars,
                       scaleVars, ocrVars, rpaVars, fieldVars>>

NextDecode == CallExtractJson

InitDecode ==
    /\ ClientInit /\ PipeInit /\ LocateInit /\ BatchInit
    /\ display = [w |-> 4, h |-> 3, sw |-> 4, sh |-> 3]
    /\ DecodeInit /\ ParseIdle /\ DetectIdle /\ ScaleIdle /\ OcrIdle /\ RpaIdle /\ FieldIdle

SpecDecode == InitDecode /\ [][NextDecode]_vars

\* ---- the parser applied to one screen text ----
CallNormalizeDate ==
    NormalizeDateCall
        /\ UNCHANGED <<clientVars, pipeVars, locVars, decodeVars, detectVars,
                       scaleVars, ocrVars, rpaVars, fieldVars>>

CallParsePatientInfo ==
    /\ \E o \in Screens : ParseScreenText(o)
    /\ UNCHANGED <<clientVars, pipeVars, locVars, decodeVars, detectVars,
                   scaleVars, ocrVars, rpaVars, fieldVars>>

NextParse ==
    \/ CallNormalizeDate
    \/ CallParsePatientInfo

InitParse ==
    /\ ClientInit /\ PipeInit /\ LocateInit /\ BatchInit
    /\ display = [w |-> 4, h |-> 3, sw |-> 4, sh |-> 3]
    /\ DecodeIdle /\ ParseInit /\ DetectIdle /\ ScaleIdle /\ OcrIdle /\ RpaIdle /\ FieldIdle

SpecParse == InitParse /\ [][NextParse]_vars

\* ---- the detector applied to one recognised text ----
CallDetectEmrSystem ==
    DetectCall
        /\ UNCHANGED <<clientVars, pipeVars, locVars, decodeVars, parseVars,
                       scaleVars, ocrVars, rpaVars, fieldVars>>

NextDetect == CallDetectEmrSystem

InitDetect ==
    /\ ClientInit /\ PipeInit /\ LocateInit /\ BatchInit
    /\ display = [w |-> 4, h |-> 3, sw |-> 4, sh |-> 3]
    /\ DecodeIdle /\ ParseIdle /\ DetectInit /\ ScaleIdle /\ OcrIdle /\ RpaIdle /\ FieldIdle

SpecDetect == InitDetect /\ [][NextDetect]_vars

\* ---- the pixel scale of one screenshot ----
CallGetPixelScale ==
    GetPixelScaleCall
        /\ UNCHANGED <<clientVars, pipeVars, locVars, decodeVars, parseVars,
                       detectVars, ocrVars, rpaVars, fieldVars>>

NextScale == CallGetPixelScale

InitScale ==
    /\ ClientInit /\ PipeInit /\ LocateInit /\ BatchInit
    /\ display = [w |-> 4, h |-> 3, sw |-> 4, sh |-> 3]
    /\ DecodeIdle /\ ParseIdle /\ DetectIdle /\ ScaleInit /\ OcrIdle /\ RpaIdle /\ FieldIdle

SpecScale == InitScale /\ [][NextScale]_vars

\* ---- the recognised lines of one screenshot and their two consumers ----
CallRunOcr ==
    \E o \in {"ok", "missing", "engine_error"} :
        RunOcrOnPage(o)
            /\ UNCHANGED <<clientVars, pipeVars, locVars, decodeVars,
                           parseVars, detectVars, scaleVars, rpaVars, fieldVars>>

CallFindAndClickPatient ==
    \E captured \in BOOLEAN, engine_ok \in BOOLEAN :
        FindAndClickPatient(captured, engine_ok)
            /\ UNCHANGED <<clientVars, pipeVars, locVars, decodeVars,
                           parseVars, detectVars, scaleVars, rpaVars, fieldVars>>

NextOcr == CallRunOcr \/ CallFindAndClickPatient

InitOcr ==
    /\ ClientInit /\ PipeInit /\ LocateInit /\ BatchInit
    /\ display = [w |-> 4, h |-> 3, sw |-> 4, sh |-> 3]
    /\ DecodeIdle /\ ParseIdle /\ DetectIdle /\ ScaleIdle /\ OcrInit
    /\ RpaIdle /\ FieldIdle

SpecOcr == InitOcr /\ [][NextOcr]_vars

\* ---- the CJK dialect on one text of labelled lines ----
CallParseGenericCn ==
    ParseGenericCnCall
        /\ UNCHANGED <<clientVars, pipeVars, locVars, decodeVars, parseVars,
                       detectVars, scaleVars, ocrVars, rpaVars>>

NextFields == CallParseGenericCn

InitFields ==
    /\ ClientInit /\ PipeInit /\ LocateInit /\ BatchInit
    /\ display = [w |-> 4, h |-> 3, sw |-> 4, sh |-> 3]
    /\ DecodeIdle /\ ParseIdle /\ DetectIdle /\ ScaleIdle /\ OcrIdle
    /\ RpaIdle /\ FieldInit

SpecFields == InitFields /\ [][NextFields]_vars

\* ---- runs of the RPA workflow ----
RunStartWorkflow ==
    StartWorkflow
        /\ UNCHANGED <<clientVars, pipeVars, locVars, decodeVars, parseVars,
                       detectVars, scaleVars, ocrVars, fieldVars>>

RunStep1 ==
    \E browser_ok \in BOOLEAN, input_ok \in BOOLEAN :
        Step1(browser_ok, input_ok)
            /\ UNCHANGED <<clientVars, pipeVars, locVars, decodeVars,
                           parseVars, detectVars, scaleVars, ocrVars,
                           fieldVars>>

RunStep2 ==
    \E captured \in BOOLEAN, located \in {"coords", "none", "raised"} :
        Step2(captured, located)
            /\ UNCHANGED <<clientVars, pipeVars, locVars, decodeVars,
                           parseVars, detectVars, scaleVars, ocrVars,
                           fieldVars>>

RunStep3 ==
    \E o \in {"ok", "capture_raised", "not_a_dict"},
       collected_data \in SUBSET Fields :
        Step3(o, collected_data)
            /\ UNCHANGED <<clientVars, pipeVars, locVars, decodeVars,
                           parseVars, detectVars, scaleVars, ocrVars,
                           fieldVars>>

RunStep4 ==
    \E api \in {"patients", "profile", "error"}, clipboard_ok \in BOOLEAN :
        Step4(api, clipboard_ok)
            /\ UNCHANGED <<clientVars, pipeVars, locVars, decodeVars,
                           parseVars, detectVars, scaleVars, ocrVars,
                           fieldVars>>

NextWorkflow ==
    RunStartWorkflow \/ RunStep1 \/ RunStep2 \/ RunStep3 \/ RunStep4

InitWorkflow ==
    /\ ClientInit /\ PipeInit /\ LocateInit /\ BatchInit
    /\ display = [w |-> 4, h |-> 3, sw |-> 4, sh |-> 3]
    /\ DecodeIdle /\ ParseIdle /\ DetectIdle /\ ScaleIdle /\ OcrIdle
    /\ FieldIdle /\ RpaInit

SpecWorkflow == InitWorkflow /\ [][NextWorkflow]_vars

(***************************************************************************)
(* Properties                                                              *)
(***************************************************************************)

\* C1: while the client holds the mock token (degraded mode), no publish
\* operation puts a request carrying patient data on the wire: every patient
\* request sent so far was sent with a token other than the mock token.
C1_NoPublishInDegradedMode ==
    lastReq.endpoint # "none" => lastReq.token # MOCK_TOKEN

\* C2: create_or_update_patient_profile is idempotent on ehr_patient_id: with
\* force_create never used, no create request (POST /patient-profiles) is
\* sent for an id whose profile already exists on the destination.
C2_IdempotentOnEhrId ==
    (/\ lastReq.method = "POST"
     /\ lastReq.endpoint = "/patient-profiles"
     /\ ~forceUsed)
        => ~lastReq.existed

\* C3: in a run, capture, recognition and extraction are each invoked at most
\* once; once a stage has failed the run is finished and no capture,
\* recognition, extraction or publish request follows in that run; only the
\* publish request is ever sent more than once.
C3_StagesRunOnce ==
    [][ /\ captureCalls' <= 1
        /\ ocrCalls' <= 1
        /\ parseCalls' <= 1
        /\ (failedStage # "none" /\ pc' # "config")
              => /\ pc = "done" /\ pc' = "done"
                 /\ UNCHANGED <<captureCalls, ocrCalls, parseCalls,
                                publishReqs, result, failedStage>> ]_vars

C3_Witness ==
    /\ pc = "done"
    /\ failedStage = "publish"
    /\ captureCalls = 1 /\ ocrCalls = 1 /\ parseCalls = 1
    /\ publishReqs >= 2

\* C4 (as stated): a request failing with a network error or an HTTP 5xx is
\* retried after 2^retry seconds while retry < API_RETRY_COUNT and raised
\* only at the cap.
C4_TransientRetried ==
    lastAttempt.outcome \in {"neterr", "http5xx"}
        => IF lastAttempt.retry < API_RETRY_COUNT
           THEN /\ lastAttempt.did = "sleep_retry"
                /\ lastAttempt.sleep = Pow2(lastAttempt.retry)
           ELSE lastAttempt.did = "raise"

\* C4 (amended): only a network error is retried: it is retried after
\* 2^retry seconds while the call's retry counter is below API_RETRY_COUNT
\* (the same request is sent again with the counter one higher) and raised
\* once the counter has reached the cap; an HTTP 5xx or 4xx answer is raised
\* at once, without retry or wait.
C4_NetworkErrorRetried ==
    /\ lastAttempt.outcome = "neterr"
          => IF lastAttempt.retry < API_RETRY_COUNT
             THEN /\ lastAttempt.did = "sleep_retry"
                  /\ lastAttempt.sleep = Pow2(lastAttempt.retry)
                  /\ cpc = lastAttempt.phase
                  /\ retry = lastAttempt.retry + 1
             ELSE /\ lastAttempt.did = "raise"
                  /\ lastAttempt.retry = API_RETRY_COUNT
    /\ lastAttempt.outcome \in {"http5xx", "http4xx"}
          => /\ lastAttempt.did = "raise"
             /\ lastAttempt.sleep = 0

C4_Witness ==
    /\ lastAttempt.outcome = "neterr"
    /\ lastAttempt.retry = API_RETRY_COUNT
    /\ lastAttempt.did = "raise"
    /\ lastAttempt.sent = API_RETRY_COUNT + 1

\* C5: within one _make_api_request call a 401 answer triggers a token
\* refresh and a retry if the call has not refreshed yet, whatever retries
\* came before, and is raised if the call has already refreshed once.
C5_OneRefreshPer401 ==
    lastAttempt.outcome = "http401"
        => IF lastAttempt.refreshes = 0
           THEN lastAttempt.did = "refresh_retry"
           ELSE lastAttempt.did = "raise"

\* C6: every record that reaches the publish step is complete and every
\* field the user corrected is in normalised form (birth_date YYYY-MM-DD,
\* gender one of MALE, FEMALE, OTHER).
C6_PublishedRecordNormalized ==
    publishReqs > 0
        => /\ \A f \in Fields : ~Falsy(patient_info_dict[f])
           /\ "birth_date" \in corrected
                 => patient_info_dict.birth_date \in CanonicalDates
           /\ "gender" \in corrected
                 => patient_info_dict.gender \in CanonicalGenders

\* the set of elements of a sequence
Range(sq) == {sq[i] : i \in 1..Len(sq)}

C8_CancelEndsRun ==
    result.error.kind = Cancelled
        => /\ pc = "done"
           /\ ~result.success
           /\ failedStage = "cancelled"
           /\ captureCalls = 0 /\ ocrCalls = 0 /\ parseCalls = 0
           /\ publishReqs = 0
           /\ lastReq = NoReq

C8_Witness ==
    /\ result.error.kind = Cancelled
    /\ params.smart_mode
    /\ pc = "done"

\* a row of the answer that carries a name and both coordinates as numbers
WholeRow(p) == p.t = "obj" /\ p.name # "absent" /\ p.x.t = "num" /\ p.y.t = "num"

\* C9: in batch mode a row that cannot be processed (no coordinate, no
\* field) does not abort the batch: for every whole row of the answer the
\* operation returns a list with that row in it, converted
\* (locate_all_visible_patients) or as received (extract_patient_list_data).
C9_PartialFailureTolerated ==
    (/\ batchInput.op # "none"
     /\ batchInput.data.t = "obj"
     /\ batchInput.data.has)
        => \A i \in 1..Len(batchInput.data.rows) :
              WholeRow(batchInput.data.rows[i])
                 => /\ batchResult.kind = "list"
                    /\ \E j \in 1..Len(batchResult.rows) :
                          batchResult.rows[j] =
                             IF batchInput.op = "locate_all_visible_patients"
                             THEN RowResult(batchInput.data.rows[i], display)
                             ELSE RawRow(batchInput.data.rows[i])

\* the coarse answer is missing, undecodable, or lacks the expected shape
MalformedCoarse(v) ==
    \/ v.t # "obj"
    \/ ~v.has
    \/ v.bbox.t # "list"
    \/ Len(v.bbox.items) # 4
    \/ \E i \in 1..Len(v.bbox.items) : v.bbox.items[i].t # "num"

\* the fine answer is missing, undecodable, or lacks the expected shape
MalformedFine(v) ==
    \/ v.t # "obj"
    \/ v.found /\ (v.x.t = "absent" \/ v.y.t = "absent")

\* C10: locate_patient_precise never raises on a missing or malformed
\* vision answer: whenever the coarse answer, or the fine answer it went on
\* to ask for, is missing, undecodable or of the wrong shape, the call has
\* returned None and produced no coordinate.
C10_MalformedYieldsNone ==
    (/\ lpc = "done"
     /\ \/ MalformedCoarse(coarseAnswer)
        \/ fineQueries > 0 /\ MalformedFine(fineAnswer))
        => locResult = NoPoint

\* the point lies on the logical screen
OnScreen(x, y, d) == 0 <= x /\ x < d.sw /\ 0 <= y /\ y < d.sh

\* C11: every point a locate operation returns (locate_patient_precise,
\* find_tab_or_button, each row of locate_all_visible_patients) lies within
\* the logical screen: 0 <= x < screen_w and 0 <= y < screen_h.
C11_PointWithinScreen ==
    /\ locResult.kind = "point" => OnScreen(locResult.x, locResult.y, display)
    /\ tabResult.kind = "point" => OnScreen(tabResult.x, tabResult.y, display)
    /\ (batchInput.op = "locate_all_visible_patients" /\ batchResult.kind = "list")
          => \A i \in 1..Len(batchResult.rows) :
                OnScreen(batchResult.rows[i].x, batchResult.rows[i].y, display)

\* the answer is a JSON object wrapped in prose that holds no brace
WrappedObject(r) ==
    /\ JsonLoads(r.body).ok
    /\ r.body[1] = "{"
    /\ \A i \in 1..Len(r.prefix) : r.prefix[i] \in {"p", "_"}
    /\ \A i \in 1..Len(r.suffix) : r.suffix[i] \in {"p", "_"}

\* C12: for a JSON object, nested objects and arrays of objects included,
\* wrapped in prefix and suffix prose or in a code fence,
\* _extract_json_from_text returns what parsing the bare object returns.
C12_WrappedObjectRecovered ==
    (decoded # NotDecoded /\ WrappedObject(rawText))
        => /\ decoded.ok
           /\ decoded.value = JsonLoads(rawText.body).value

\* the brace strategy alone: parse the brace-delimited substring
BraceStrategy(text) ==
    IF BraceMatch(text) # <<>> THEN JsonLoads(BraceMatch(text)) ELSE NoData

\* the fence strategy alone: parse the interior of the ```json block
FenceStrategy(text) ==
    IF FenceFound(text) THEN JsonLoads(FenceInterior(text)) ELSE NoData

\* C20: the three strategies apply in strict priority order, each later one
\* whenever every earlier one produced no parse: the result is that of the
\* whole text if it parses, else that of the brace substring if it parses,
\* else that of the fenced interior if it parses, and no data only when all
\* three fail.
C20_StrategiesInOrder ==
    decoded # NotDecoded
        => LET text == TextOf(rawText)
           IN IF JsonLoads(text).ok
              THEN decoded = Parsed(JsonLoads(text).value, 1)
              ELSE IF BraceStrategy(text).ok
              THEN decoded = Parsed(BraceStrategy(text).value, 2)
              ELSE IF FenceStrategy(text).ok
              THEN decoded = Parsed(FenceStrategy(text).value, 3)
              ELSE decoded = NoData

\* the templates in the order the claim gives them
ClaimedTemplates == <<"%Y-%m-%d", "%Y/%m/%d", "%m/%d/%Y", "%d/%m/%Y", "%Y%m%d">>

\* the templates that parse the cleaned date text
ParsingTemplates(raw) ==
    {i \in 1..Len(ClaimedTemplates) :
        Strptime(CleanDate(raw), ClaimedTemplates[i]).ok}

\* C16: _normalize_date replaces the year and month markers by "-" and drops
\* the day marker, then returns the YYYY-MM-DD rendering of the first of
\* the templates Y-M-D, Y/M/D, M/D/Y, D/M/Y, YMD that parses (so a slash
\* date that reads both ways is read month first); if none parses it
\* returns the raw text unchanged.
C16_FirstTemplateWins ==
    dateNorm # NotNormalized
        => IF ParsingTemplates(date_raw) = {}
           THEN dateNorm = date_raw
           ELSE LET first == CHOOSE i \in ParsingTemplates(date_raw) :
                                \A j \in ParsingTemplates(date_raw) : i <= j
                    dt == Strptime(CleanDate(date_raw), ClaimedTemplates[first])
                IN /\ dateNorm = Strftime(dt)
                   /\ Len(dateNorm) = 10
                   /\ {3, 4} \subseteq ParsingTemplates(date_raw)
                         => dt.m = Val(SplitOn(date_raw, "/")[1])

\* 12/01/1970 reads both ways and was rendered month first; so was a date
\* with the year, month and day markers
C16_Witness ==
    /\ date_raw = <<"1", "2", "/", "0", "2", "/", "1", "9", "7", "0">>
    /\ dateNorm = <<"1", "9", "7", "0", "-", "1", "2", "-", "0", "2">>

\* the form YYYY-MM-DD
CanonicalForm(t) ==
    /\ Len(t) = 10
    /\ \A i \in {1, 2, 3, 4, 6, 7, 9, 10} : IsDigit(t[i])
    /\ t[5] = "-" /\ t[8] = "-"

\* C13: every record parse_patient_info returns, for every screen text and
\* each dialect, has a birth date that is absent or of the form YYYY-MM-DD
\* and a gender that is absent or one of MALE, FEMALE, OTHER.
C13_RecordInvariant ==
    patient_info # NotParsed
        => /\ patient_info.birth_date = NoneText
                \/ CanonicalForm(patient_info.birth_date)
           /\ patient_info.gender \in CanonicalGenders \cup {NoneV}

\* the validation step of a run, with `missing` the fields it should report
ValidationStep(missing) ==
    /\ patient_info_dict' = patient_info_dict
    /\ missing = {} <=> result'.patient_info = "set"
    /\ missing = {} => result'.error.missing = <<>>
    /\ missing # {}
          => /\ Range(result'.error.missing) = missing
             /\ failedStage' = "validation"
             /\ pc' = "done"

\* C17 (amended): the validation of a run finds the record complete iff no
\* required field is None or empty, reports exactly the required fields
\* that are None or empty otherwise, and leaves the record unchanged.
C17_ValidationExact ==
    [][pc = "validate" /\ pc' # "validate"
          => ValidationStep({f \in Fields :
                                patient_info_dict[f] \in {NoneV, ""}})]_vars

\* a run stopped by validation on a record without birth date and gender
C17_Witness ==
    /\ pc = "done"
    /\ failedStage = "validation"
    /\ result.error.missing = <<"birth_date", "gender">>
    /\ patient_info_dict.first_name # ""

\* C17 (as stated): the record is complete iff no required field is absent
\* from it, and the fields reported are exactly the absent ones.
C17_AbsentFieldsOnly ==
    [][pc = "validate" /\ pc' # "validate"
          => ValidationStep({f \in Fields : patient_info_dict[f] = NoneV})]_vars

\* no profile reaches its minimum match count on the text
NoneQualifies(text) ==
    \A i \in 1..Len(EMR_SIGNATURES) :
        Len(MatchedKeywords(EMR_SIGNATURES[i], text))
            < EMR_SIGNATURES[i].min_matches

\* C14: detect_emr_system always returns the id of a declared profile; when
\* no profile reaches its minimum match count it returns the generic CJK
\* profile if the text contains a CJK ideograph and the generic Latin
\* profile otherwise.
C14_AlwaysDeclaredProfile ==
    detected # NotDetected
        => /\ detected.system_type \in Profiles
           /\ NoneQualifies(ocr_text)
                 => detected.system_type =
                        IF HasIdeograph(ocr_text) THEN "generic_cn"
                        ELSE "generic_en"

\* the entries of EMR_SIGNATURES that reach their minimum on the text
Qualifying(text) ==
    {i \in 1..Len(EMR_SIGNATURES) :
        Len(MatchedKeywords(EMR_SIGNATURES[i], text))
            >= EMR_SIGNATURES[i].min_matches}

\* C15: among the profiles whose matched keywords reach their min_matches,
\* detect_emr_system selects the one of highest confidence = matched / total
\* keywords, the earliest declared among equals; a profile below its
\* minimum is never selected while another qualifies.
C15_HighestConfidenceWins ==
    detected # NotDetected /\ Qualifying(ocr_text) # {}
        => \E i \in Qualifying(ocr_text) :
              LET c == Confidence(EMR_SIGNATURES[i], ocr_text)
              IN /\ detected.system_type = EMR_SIGNATURES[i].id
                 /\ detected.confidence = c
                 /\ \A j \in Qualifying(ocr_text) :
                       LET cj == Confidence(EMR_SIGNATURES[j], ocr_text)
                       IN /\ cj.n * c.d <= c.n * cj.d
                          /\ cj.n * c.d = c.n * cj.d => i <= j

\* epic and cerner both qualify with 1 of 3 keywords, generic_en is below
\* its minimum with 1 of 6: the earlier declared epic is selected
C15_Witness ==
    /\ ocr_text.words = {"Epic", "Cerner", "Name"}
    /\ detected.system_type = "epic"
    /\ detected.confidence = [n |-> 1, d |-> 3]

\* C19: the pixel scale is image width / logical screen width when the
\* screen width is positive; for a screen width of zero or less the call
\* fails with InvalidScaleInput; no call returns a scale of zero or less.
C19_ScaleGuarded ==
    scaleResult # NoScale
        => /\ scaleInput.screen_w > 0
                 => /\ scaleResult.t = "returned"
                    /\ scaleResult.n * scaleInput.screen_w
                          = scaleInput.img_w * scaleResult.d
           /\ scaleInput.screen_w <= 0
                 => /\ scaleResult.t = "raised"
                    /\ scaleResult.exc = "InvalidScaleInput"
           /\ scaleResult.t = "returned" => scaleResult.n * scaleResult.d > 0

\* a - b as a distance
Dist(a, b) == IF a >= b THEN a - b ELSE b - a

\* the coarse answer is a box [ymin, xmin, ymax, xmax] with top < bottom,
\* left < right and all four in [0, 1]
ValidBox(v) ==
    /\ v.t = "obj" /\ v.truthy /\ v.has
    /\ v.bbox.t = "list" /\ Len(v.bbox.items) = 4
    /\ \A i \in 1..4 : v.bbox.items[i].t = "num"
                          /\ v.bbox.items[i].n \in 0..Den
    /\ v.bbox.items[1].n < v.bbox.items[3].n
    /\ v.bbox.items[2].n < v.bbox.items[4].n

\* the fine answer is a point of the crop with both fractions in [0, 1]
ValidFraction(v) ==
    /\ v.t = "obj" /\ v.truthy /\ v.found
    /\ v.x.t = "num" /\ v.x.n \in 0..Den
    /\ v.y.t = "num" /\ v.y.n \in 0..Den

\* Den * Den times the exact fraction of the full image: lo + f * (hi - lo)
ExactFraction(lo, hi, f) == lo.n * Den + f.n * (hi.n - lo.n)

\* C18: for a valid coarse box and a crop fraction in [0, 1] x [0, 1] the
\* point locate_patient_precise returns is within one pixel, in x and in
\* y, of the exact point ((left + fx * (right - left)) * W / scale,
\* (top + fy * (bottom - top)) * H / scale), where scale = W / screen_w.
C18_WithinOnePixel ==
    locResult.kind = "point" /\ ValidBox(coarseAnswer)
            /\ ValidFraction(fineAnswer)
        => LET b == coarseAnswer.bbox.items
               ex == ExactFraction(b[2], b[4], fineAnswer.x) * display.sw
               ey == ExactFraction(b[1], b[3], fineAnswer.y)
                        * display.h * display.sw
           IN /\ Dist(locResult.x * Den * Den, ex) <= Den * Den
              /\ Dist(locResult.y * Den * Den * display.w, ey)
                    <= Den * Den * display.w

\* the coarse answer is nothing, or an object without a "bbox" key
NoBoxAnswered(v) == v.t = "None" \/ ~v.truthy \/ (v.t = "obj" /\ ~v.has)

\* the coarse answer is an object whose "bbox" is a list of four numbers
FourNumberBox(v) ==
    /\ v.t = "obj" /\ v.truthy /\ v.has
    /\ v.bbox.t = "list" /\ Len(v.bbox.items) = 4
    /\ \A i \in 1..4 : v.bbox.items[i].t = "num"

\* C21: when the coarse answer has no box, or a box of four numbers that
\* is not top < bottom, left < right with all four values in [0, 1],
\* locate_patient_precise ends with no point found, before cropping, and
\* the fine query is never submitted.
C21_InvalidBoxStops ==
    /\ lpc # "idle"
    /\ NoBoxAnswered(coarseAnswer)
          \/ (FourNumberBox(coarseAnswer) /\ ~ValidBox(coarseAnswer))
    => /\ fineQueries = 0
       /\ lpc = "done" => locResult = NoPoint

\* the texts of the lines whose confidence reaches the threshold, in order
RetainedTexts(page) ==
    LET kept == SelectSeq(page,
                    LAMBDA w : w.confidence >= OCR_CONFIDENCE_THRESHOLD)
    IN  [i \in 1..Len(kept) |-> kept[i].text]

\* C22: a recognised line is used only if its confidence is at least the
\* threshold: the text run_ocr returns is exactly the lines that reach the
\* threshold, in their order, and the line find_and_click_patient clicks
\* reaches the threshold.
C22_OnlyConfidentLinesUsed ==
    /\ ocrResult.t = "returned"
          => ocrResult.text_lines = RetainedTexts(ocrPage)
    /\ clickResult.t = "returned" /\ clickResult.value
          => clickResult.target.confidence >= OCR_CONFIDENCE_THRESHOLD

\* the half of C22 about run_ocr alone
C22_RunOcrFilters ==
    ocrResult.t = "returned" => ocrResult.text_lines = RetainedTexts(ocrPage)

\* the patterns of a list that match somewhere in the text
Matching(patterns, text) ==
    {k \in 1..Len(patterns) :
        \E i \in 1..Len(text) : Group(patterns[k], text, i) # NoMatch}

Earliest(patterns, text) ==
    CHOOSE k \in Matching(patterns, text) :
        \A j \in Matching(patterns, text) : k <= j

\* the field was taken from the earliest matching pattern of its list, no
\* later pattern was consulted, and it is absent exactly when none matches
FromEarliest(patterns, field, absent, stored(_)) ==
    IF Matching(patterns, cnText) = {}
    THEN cnInfo.used[field] = 0 /\ absent
    ELSE /\ cnInfo.used[field] = Earliest(patterns, cnText)
         /\ cnInfo.consulted[field] = Earliest(patterns, cnText)
         /\ ~absent
         /\ stored(Search(patterns[Earliest(patterns, cnText)], cnText))

\* C23: in the CJK dialect each of name, gender, birth date and identifier
\* is taken from the earliest pattern of its ordered list that matches
\* anywhere in the text; a later pattern is consulted only when every
\* earlier one fails, and the field is absent only when no pattern matches.
C23_FirstPatternWins ==
    cnInfo # NotParsedCn =>
        /\ FromEarliest(name_patterns, "name",
               cnInfo.last_name = NoneText /\ cnInfo.first_name = NoneText,
               LAMBDA g : cnInfo.last_name \o cnInfo.first_name = g)
        /\ FromEarliest(gender_patterns, "gender", cnInfo.gender = NoneV,
               LAMBDA g : cnInfo.gender = NormalizeGender(g[1]))
        /\ FromEarliest(birth_date_patterns, "birth_date",
               cnInfo.birth_date = NoneText,
               LAMBDA g : cnInfo.birth_date = NormalizeDate(g))
        /\ FromEarliest(ehr_id_patterns, "ehr_patient_id",
               cnInfo.ehr_patient_id = NoneText,
               LAMBDA g : cnInfo.ehr_patient_id = Upper(g))

\* a DOB line stands before a chushengriqi line, and the date stored is the
\* one of the chushengriqi line, found by the first pattern of the list
C23_Witness ==
    /\ cnInfo # NotParsedCn
    /\ Len(cnText) >= 2
    /\ cnText[1].label = DOBLabel
    /\ cnText[2].label = chushengriqi
    /\ cnInfo.used.birth_date = 1
    /\ cnInfo.birth_date = <<"1", "9", "9", "0", "-", "0", "1", "-", "0", "2">>

\* C24: in the CJK dialect, for every matched full name, last_name is its
\* first character and first_name the remaining characters in order, so
\* that last_name followed by first_name is the matched name; a name of one
\* character gives the empty first_name.
C24_NameSplit ==
    cnInfo # NotParsedCn /\ cnInfo.used.name # 0 =>
        /\ cnInfo.full_name # <<>>
        /\ cnInfo.last_name = <<cnInfo.full_name[1]>>
        /\ cnInfo.first_name = Tail(cnInfo.full_name)
        /\ cnInfo.last_name \o cnInfo.first_name = cnInfo.full_name
        /\ Len(cnInfo.full_name) = 1 => cnInfo.first_name = <<>>

\* the name of one character: li is the family name, the given name is ""
C24_Witness ==
    /\ cnInfo # NotParsedCn
    /\ cnInfo.full_name = <<"li">>
    /\ cnInfo.last_name = <<"li">>
    /\ cnInfo.first_name = <<>>

CompleteRun ==
    /\ pc = "done"
    /\ captureCalls = 1 /\ ocrCalls = 1 /\ parseCalls = 1
    /\ MissingFields(patient_info_dict) = <<>>
    /\ cres \notin HeidiAPIErrors

\* C26: a smart-mode run with a valid configuration, a successful capture
\* and recognition, all five required fields extracted and a destination
\* that accepts the request ends with success = True after the publish
\* request was sent.
C26_SmartRunPublishes ==
    CompleteRun /\ params.smart_mode
        => result.success /\ publishReqs >= 1

\* the same statement for a normal-mode run
C26_NormalRunPublishes ==
    CompleteRun /\ ~params.smart_mode
        => result.success /\ publishReqs >= 1

MaxRetry == IF API_RETRY_COUNT > 1 THEN API_RETRY_COUNT ELSE 1

\* C27: one call of _make_api_request sends at most
\* max(API_RETRY_COUNT, 1) + 1 requests and then returns or raises: the
\* request number n is sent with retry = n - 1, a retry of either kind is
\* decided only below the cap and continues with retry + 1, and the request
\* sent at the cap ends the call.
C27_BoundedRequests ==
    /\ retry <= MaxRetry
    /\ reqCount = retry
    /\ lastAttempt.sent <= MaxRetry + 1
    /\ lastAttempt # NoAttempt =>
          /\ lastAttempt.sent = lastAttempt.retry + 1
          /\ lastAttempt.did \in {"refresh_retry", "sleep_retry"}
                => lastAttempt.retry < MaxRetry
          /\ lastAttempt.did \in {"refresh_retry", "sleep_retry"}
                /\ cpc \in {"lookup", "create", "update"}
                => retry = lastAttempt.retry + 1
          /\ lastAttempt.retry = MaxRetry
                => lastAttempt.did \in {"return", "raise"}

\* a call that used the whole budget with retries of both kinds: a 401
\* refresh, then network errors, and the last request raised
C27_Witness ==
    /\ lastAttempt.sent = MaxRetry + 1
    /\ lastAttempt.refreshes = 1
    /\ lastAttempt.did = "raise"

\* C28: every request _make_api_request sends carries a token whose
\* recorded expiry has not passed when the request is sent.
C28_NoExpiredTokenSent ==
    lastReq.op = "create_or_update_patient_profile" => ~lastReq.expired

\* steps_completed is the first names of the list, every step but the last
\* invoked one reported success, and success is recorded exactly when all
\* four names are
C30_PrefixAndOrder ==
    wpc = "done" =>
        /\ Len(wresult.steps_completed) <= Len(StepNames)
        /\ wresult.steps_completed
             = SubSeq(StepNames, 1, Len(wresult.steps_completed))
        /\ \A k \in 1..Len(invoked) :
              /\ invoked[k].step = StepNames[k]
              /\ k < Len(invoked) => invoked[k].outcome = "ok"
        /\ wresult.success <=> wresult.steps_completed = StepNames

\* C30: in every result of run_full_workflow, steps_completed is a prefix of
\* the four step names in order, a step is invoked only after the step
\* before it reported success, success = True exactly when all four steps
\* are recorded, and otherwise error is non-null and names the first step
\* that failed.
C30_WorkflowResult ==
    wpc = "done" =>
        /\ C30_PrefixAndOrder
        /\ ~wresult.success =>
              /\ wresult.error.kind # NoneV
              /\ wresult.error.step = Len(wresult.steps_completed) + 1

====
